---- MODULE Spec2Model ----
(***************************************************************************)
(* hookup (sebellows/hookup): the schema resolver (resolveSchema, hookup), *)
(* the path accessor (get, set) and the validators it composes, as state   *)
(* machines over a heap of JavaScript objects.                             *)
(*                                                                         *)
(* A JavaScript string is the sequence of its characters, a property key   *)
(* is a string, a value is a record [t, n, s] (its type tag, its number or *)
(* heap address, its characters), and an object or array lives in the heap *)
(* so that two references to it alias.  A schema is a literal tree: the    *)
(* resolver only reads it.                                                 *)
(***************************************************************************)
EXTENDS Integers, Sequences, FiniteSets, TLC

VARIABLES
  heap,      \* the JavaScript heap: a sequence of objects, addressed 1..Len
  heap0,     \* the heap as it was when the call started (history)
  strict,    \* whether the build runs the module in strict mode
  schema,    \* hookup's first argument, a literal tree
  source,    \* hookup's second argument, a value (an object or an array)
  pc,        \* where the call stands
  si,        \* index of the source being resolved (Array.prototype.map)
  fi,        \* index of the schema entry being resolved (Array.prototype.reduce)
  obj,       \* address of the accumulating result object, 0 when there is none
  results,   \* the resolved objects so far, one per source
  err,       \* the error thrown, if any
  fnLog,     \* one record per call of a Function accessor: what it was given
  target,    \* set/get: the target argument
  path,      \* set/get: the path argument
  value,     \* set: the value argument
  ret,       \* set: what it returned
  got,       \* get: what it returned
  composeArg,\* compose/composeAsync: the list of validators, or null
  inputArg,  \* the value a validator or a predicate is called on
  output,    \* what the validator or predicate returned (resolved to)
  promises,  \* composeAsync: one record per validator called, its promise
  order,     \* composeAsync: the validators in the order their promises resolved
  self       \* Field: the instance, a record of its properties

vars == <<heap, heap0, strict, schema, source, pc, si, fi, obj, results, err,
          fnLog, target, path, value, ret, got, composeArg, inputArg, output,
          promises, order, self>>

hookupVars == <<schema, source, si, fi, obj, results, fnLog>>
setVars == <<target, path, value, ret, got>>
valVars == <<composeArg, inputArg, output, promises, order, self>>

-----------------------------------------------------------------------------
(* Values *)

Undefined == [t |-> "undefined", n |-> 0, s |-> <<>>]
Null == [t |-> "null", n |-> 0, s |-> <<>>]
Num(k) == [t |-> "number", n |-> k, s |-> <<>>]
NaN == [t |-> "number", n |-> 0, s |-> <<"N", "a", "N">>]
Str(cs) == [t |-> "string", n |-> 0, s |-> cs]
Bool(b) == [t |-> "boolean", n |-> IF b THEN 1 ELSE 0, s |-> <<>>]
Ref(a) == [t |-> "ref", n |-> a, s |-> <<>>]
Fn(name, arg) == [t |-> "function", n |-> arg, s |-> name]

IsRef(v) == v.t = "ref"
IsNaN(v) == v.t = "number" /\ v.s # <<>>

(* Literal trees: a schema, or a source before it is loaded into the heap. *)
LPrim(v) == [t |-> v.t, n |-> v.n, s |-> v.s, ks |-> <<>>, vs |-> <<>>]
LObj(ks, vs) == [t |-> "object", n |-> 0, s |-> <<>>, ks |-> ks, vs |-> vs]
LArr(vs) == [t |-> "array", n |-> 0, s |-> <<>>, ks |-> <<>>, vs |-> vs]
LitVal(l) == [t |-> l.t, n |-> l.n, s |-> l.s]

-----------------------------------------------------------------------------
(* Strings *)

DigitChars == <<"0", "1", "2", "3", "4", "5", "6", "7", "8", "9">>
LowerChars == <<"a", "b", "c", "d", "e", "f", "g", "h", "i", "j", "k", "l", "m",
                "n", "o", "p", "q", "r", "s", "t", "u", "v", "w", "x", "y", "z">>
UpperChars == <<"A", "B", "C", "D", "E", "F", "G", "H", "I", "J", "K", "L", "M",
                "N", "O", "P", "Q", "R", "S", "T", "U", "V", "W", "X", "Y", "Z">>

IsDigit(c) == \E i \in DOMAIN DigitChars : DigitChars[i] = c
DigitVal(c) == (CHOOSE i \in DOMAIN DigitChars : DigitChars[i] = c) - 1

RECURSIVE NatStr(_)
NatStr(k) ==
  IF k < 10 THEN <<DigitChars[k + 1]>>
  ELSE NatStr(k \div 10) \o <<DigitChars[(k % 10) + 1]>>

RECURSIVE StrNat(_)
StrNat(cs) ==
  IF cs = <<>> THEN 0
  ELSE 10 * StrNat(SubSeq(cs, 1, Len(cs) - 1)) + DigitVal(cs[Len(cs)])

AllDigits(cs) == cs # <<>> /\ \A i \in DOMAIN cs : IsDigit(cs[i])
IsNatStr(cs) == AllDigits(cs) /\ (Len(cs) = 1 \/ cs[1] # "0")

(* String(v) of a number, and parseFloat: an optional sign and the longest
   run of digits that follows, NaN when there is none *)
String(v) ==
  IF IsNaN(v) THEN <<"N", "a", "N">>
  ELSE IF v.n < 0 THEN <<"-">> \o NatStr(0 - v.n)
  ELSE NatStr(v.n)

RECURSIVE digitRun(_, _)
digitRun(cs, i) ==
  IF i <= Len(cs) /\ IsDigit(cs[i]) THEN digitRun(cs, i + 1) ELSE i - 1

parseDigits(cs, from, to, sign) ==
  IF to < from THEN NaN ELSE Num(sign * StrNat(SubSeq(cs, from, to)))

parseFloat(cs) ==
  IF cs # <<>> /\ cs[1] = "-" THEN parseDigits(cs, 2, digitRun(cs, 2), 0 - 1)
  ELSE parseDigits(cs, 1, digitRun(cs, 1), 1)

toUpperCase(cs) ==
  [i \in DOMAIN cs |->
     IF \E j \in DOMAIN LowerChars : LowerChars[j] = cs[i]
     THEN UpperChars[CHOOSE j \in DOMAIN LowerChars : LowerChars[j] = cs[i]]
     ELSE cs[i]]

(* String.prototype.split('.') *)
RECURSIVE splitFrom(_, _, _)
splitFrom(cs, i, cur) ==
  IF i > Len(cs) THEN <<cur>>
  ELSE IF cs[i] = "." THEN <<cur>> \o splitFrom(cs, i + 1, <<>>)
  ELSE splitFrom(cs, i + 1, Append(cur, cs[i]))

split(cs) == splitFrom(cs, 1, <<>>)

(* Array.prototype.join(','), which is how an array becomes a property key *)
RECURSIVE join(_)
join(segs) ==
  IF segs = <<>> THEN <<>>
  ELSE IF Len(segs) = 1 THEN segs[1].s
  ELSE segs[1].s \o <<",">> \o join(Tail(segs))

kLength == <<"l", "e", "n", "g", "t", "h">>
kSize == <<"s", "i", "z", "e">>
kValue == <<"v", "a", "l", "u", "e">>
kPath == <<"p", "a", "t", "h">>
kValidators == <<"v", "a", "l", "i", "d", "a", "t", "o", "r", "s">>
kTransform == <<"t", "r", "a", "n", "s", "f", "o", "r", "m">>
kMin == <<"m", "i", "n">>
kActual == <<"a", "c", "t", "u", "a", "l">>
kRequired == <<"r", "e", "q", "u", "i", "r", "e", "d">>

-----------------------------------------------------------------------------
(* The heap *)

SeqHas(seq, x) == \E i \in DOMAIN seq : seq[i] = x
IndexOf(seq, x) == CHOOSE i \in DOMAIN seq : seq[i] = x

EmptyObject == [kind |-> "object", ks |-> <<>>, vs |-> <<>>]
EmptyArray == [kind |-> "array", ks |-> <<>>, vs |-> <<>>]

IsArray(h, v) == IsRef(v) /\ h[v.n].kind = "array"
IsObject(h, v) == IsRef(v) /\ h[v.n].kind = "object"

(* the values a container holds *)
elements(h, v) == {h[v.n].vs[i] : i \in DOMAIN h[v.n].vs}

(* the length of an array object: one past its largest index *)
ArrLength(o) ==
  LET idx == {StrNat(o.ks[i]) : i \in {j \in DOMAIN o.ks : IsNatStr(o.ks[j])}}
  IN IF idx = {} THEN 0 ELSE 1 + (CHOOSE x \in idx : \A y \in idx : y <= x)

(* target[key] = v on a heap object *)
Put(h, a, key, v) ==
  LET o == h[a]
  IN IF SeqHas(o.ks, key)
     THEN [h EXCEPT ![a].vs[IndexOf(o.ks, key)] = v]
     ELSE [h EXCEPT ![a].ks = Append(o.ks, key), ![a].vs = Append(o.vs, v)]

(* delete target[key] on a heap object *)
without(seq, i) == SubSeq(seq, 1, i - 1) \o SubSeq(seq, i + 1, Len(seq))

Delete(h, a, key) ==
  IF SeqHas(h[a].ks, key)
  THEN [h EXCEPT ![a].ks = without(h[a].ks, IndexOf(h[a].ks, key)),
                 ![a].vs = without(h[a].vs, IndexOf(h[a].ks, key))]
  ELSE h

(* loading a literal tree into the heap *)
RECURSIVE Load(_, _)
RECURSIVE LoadSeq(_, _)
loadRest(r, rest) == [h |-> rest.h, vs |-> <<r.v>> \o rest.vs]
loadNext(r, lits) == loadRest(r, LoadSeq(r.h, lits))

LoadSeq(h, lits) ==
  IF lits = <<>> THEN [h |-> h, vs |-> <<>>]
  ELSE loadNext(Load(h, Head(lits)), Tail(lits))

loaded(r, l) ==
  [h |-> Append(r.h, [kind |-> l.t,
                      ks |-> IF l.t = "array"
                             THEN [i \in DOMAIN l.vs |-> NatStr(i - 1)]
                             ELSE l.ks,
                      vs |-> r.vs]),
   v |-> Ref(Len(r.h) + 1)]

Load(h, l) ==
  IF l.t \in {"object", "array"} THEN loaded(LoadSeq(h, l.vs), l)
  ELSE [h |-> h, v |-> LitVal(l)]

(* loading an array of literals, each element's objects laid out on their own
   and then placed after those of the elements before it *)
shifted(v, off) == IF IsRef(v) THEN Ref(v.n + off) ELSE v

Rebase(h, off) ==
  [a \in DOMAIN h |->
     [h[a] EXCEPT !.vs = [i \in DOMAIN h[a].vs |-> shifted(h[a].vs[i], off)]]]

RECURSIVE LoadEach(_, _, _)
placed(h, vs, r, rest) ==
  LoadEach(h \o Rebase(r.h, Len(h)), Append(vs, shifted(r.v, Len(h))), rest)

LoadEach(h, vs, lits) ==
  IF lits = <<>> THEN [h |-> h, vs |-> vs]
  ELSE placed(h, vs, Load(<<>>, Head(lits)), Tail(lits))

LoadArg(l) ==
  IF l.t = "array" THEN loaded(LoadEach(<<>>, <<>>, l.vs), l)
  ELSE Load(<<>>, l)

-----------------------------------------------------------------------------
(* Type predicates (utils.ts) *)

isNumber(v) == v.t = "number"
isString(v) == v.t = "string"
isUndefined(v) == v.t = "undefined"
isNil(v) == v.t \in {"null", "undefined"}

(* Object.prototype.hasOwnProperty.call(o, k), k already a property key;
   the caller rules out null and undefined, on which the call throws *)
hasOwn(h, o, key) ==
  CASE IsRef(o) ->
         SeqHas(h[o.n].ks, key) \/ (h[o.n].kind = "array" /\ key = kLength)
    [] isString(o) ->
         key = kLength \/ (IsNatStr(key) /\ StrNat(key) < Len(o.s))
    [] OTHER -> FALSE

(* o[key]: throws on null and undefined *)
Prop(h, o, key) ==
  CASE isNil(o) -> [thr |-> TRUE, v |-> Undefined]
    [] IsRef(o) ->
         LET ob == h[o.n]
         IN [thr |-> FALSE,
             v |-> IF SeqHas(ob.ks, key) THEN ob.vs[IndexOf(ob.ks, key)]
                   ELSE IF ob.kind = "array" /\ key = kLength
                        THEN Num(ArrLength(ob))
                   ELSE Undefined]
    [] isString(o) ->
         [thr |-> FALSE,
          v |-> IF key = kLength THEN Num(Len(o.s))
                ELSE IF IsNatStr(key) /\ StrNat(key) < Len(o.s)
                     THEN Str(<<o.s[StrNat(key) + 1]>>)
                ELSE Undefined]
    [] OTHER -> [thr |-> FALSE, v |-> Undefined]

isEmptyObject(h, o) ==
  CASE IsRef(o) -> h[o.n].ks = <<>>
    [] isString(o) -> o.s = <<>>
    [] OTHER -> TRUE

hasLength(h, o) == hasOwn(h, o, kLength) \/ hasOwn(h, o, kSize)
lengthIsZero(h, o) == hasLength(h, o) /\ Prop(h, o, kLength).v = Num(0)

(* an isEmpty without the number guard *)
isEmptyFalsy(h, o) == isNil(o) \/ isEmptyObject(h, o) \/ lengthIsZero(h, o)

isEmpty(h, o) ==
  ~isNumber(o) /\ (isNil(o) \/ isEmptyObject(h, o) \/ lengthIsZero(h, o))

getFieldValue(h, input) ==
  IF IsObject(h, input) /\ SeqHas(h[input.n].ks, kValue)
  THEN Prop(h, input, kValue).v
  ELSE input

-----------------------------------------------------------------------------
(* The path accessor (utils.ts) *)

RECURSIVE walk(_, _, _)
walkOn(h, r, props) == IF r.thr THEN r ELSE walk(h, r.v, props)

walk(h, o, props) ==
  IF props = <<>> THEN [thr |-> FALSE, v |-> o]
  ELSE walkOn(h, Prop(h, o, Head(props)), Tail(props))

(* get(target, key): the reduce over key.split('.'), and target itself when
   the reduce throws (or key is no string, so key.split throws) *)
(* a get that gives undefined where the walk throws *)
caughtUndefined(r, tgt) == IF r.thr THEN Undefined ELSE r.v

(* a get that falls back to target on every falsy value *)
caughtFalsy(r, tgt) == IF r.thr \/ r.v \in {Num(0), Str(<<>>), Bool(FALSE), Null, Undefined, NaN} THEN tgt ELSE r.v

caught(r, tgt) == IF r.thr THEN tgt ELSE r.v

get(h, tgt, key) ==
  IF ~isString(key) THEN tgt ELSE caught(walk(h, tgt, split(key.s)), tgt)

(* getKey: parseInt(String(key), 10).toString() === key ? the integer : key.
   A segment keeps its characters (its property key) and whether it became
   a number. *)
getKey(key) ==
  [s |-> key,
   num |-> IsNatStr(key)
           \/ (Len(key) > 1 /\ key[1] = "-" /\ IsNatStr(Tail(key))
               /\ Tail(key) # <<"0">>)]

(* tgt[key] = v.  On a primitive the assignment throws in strict mode and
   does nothing otherwise. *)
assign(h, tgt, key, v) ==
  IF IsRef(tgt) THEN [h |-> Put(h, tgt.n, key, v), thr |-> FALSE]
  ELSE [h |-> h, thr |-> strict]

(* set on a path that is already an array of segments *)
RECURSIVE setPath(_, _, _, _)

(* path.length === 1: the value is written where none is defined, and what
   was there is returned *)
setLeaf(h, tgt, currentPath, v, currentValue) ==
  IF isUndefined(currentValue)
  THEN [h |-> assign(h, tgt, currentPath, v).h, ret |-> currentValue,
        thr |-> assign(h, tgt, currentPath, v).thr]
  ELSE [h |-> h, ret |-> currentValue, thr |-> FALSE]

(* set(target[currentPath], path.slice(1), value), after the container *)
setInto(a, tgt, segs, v) ==
  IF a.thr THEN [h |-> a.h, ret |-> Undefined, thr |-> TRUE]
  ELSE setPath(a.h, Prop(a.h, tgt, segs[1].s).v, Tail(segs), v)

(* a longer path: a new array or object where no value is defined *)
setBranch(h, tgt, segs, v, currentValue) ==
  setInto(IF isUndefined(currentValue)
          THEN assign(Append(h, IF segs[2].num THEN EmptyArray ELSE EmptyObject),
                      tgt, segs[1].s, Ref(Len(h) + 1))
          ELSE [h |-> h, thr |-> FALSE],
          tgt, segs, v)

setWith(h, tgt, segs, v, currentValue) ==
  IF Len(segs) = 1 THEN setLeaf(h, tgt, segs[1].s, v, currentValue)
  ELSE setBranch(h, tgt, segs, v, currentValue)

(* currentValue is target[path[0]] when hasOwn(target, path): the whole path
   array is the key asked for, which as a property key is path.join(',') *)
setPath(h, tgt, segs, v) ==
  IF isNil(tgt) THEN [h |-> h, ret |-> Undefined, thr |-> TRUE]
  ELSE setWith(h, tgt, segs, v,
               IF hasOwn(h, tgt, join(segs)) THEN Prop(h, tgt, segs[1].s).v
               ELSE Undefined)

segments(props) == [i \in DOMAIN props |-> getKey(props[i])]

(* set(target, path, value) *)
set(h, tgt, p, v) ==
  IF isNumber(p) THEN setPath(h, tgt, <<[s |-> NatStr(p.n), num |-> TRUE]>>, v)
  ELSE IF isEmpty(h, p) THEN [h |-> h, ret |-> tgt, thr |-> FALSE]
  ELSE IF isString(p) THEN setPath(h, tgt, segments(split(p.s)), v)
  ELSE [h |-> h, ret |-> Undefined, thr |-> TRUE]

(* Object.assign(agg, src): copies src's own enumerable properties *)
RECURSIVE putAll(_, _, _, _)
putAll(h, a, ks, vs) ==
  IF ks = <<>> THEN h
  ELSE putAll(Put(h, a, Head(ks), Head(vs)), a, Tail(ks), Tail(vs))

ObjectAssign(h, a, src) ==
  CASE IsRef(src) -> putAll(h, a, h[src.n].ks, h[src.n].vs)
    [] isString(src) ->
         putAll(h, a, [i \in DOMAIN src.s |-> NatStr(i - 1)],
                [i \in DOMAIN src.s |-> Str(<<src.s[i]>>)])
    [] OTHER -> h

-----------------------------------------------------------------------------
(* Validators (validators.ts) *)

(* { key: v } as a new heap object *)
alloc1(h, key, v) ==
  [h |-> Append(h, [kind |-> "object", ks |-> <<key>>, vs |-> <<v>>]),
   v |-> Ref(Len(h) + 1)]

(* a min validator whose error is the bare {min, actual} pair *)
minErrorFlat(h, min, inputValue) ==
  [h |-> Append(h, [kind |-> "object", ks |-> <<kMin, kActual>>,
                    vs |-> <<Num(min), inputValue>>]),
   v |-> Ref(Len(h) + 1)]

minError(h, min, inputValue) ==
  [h |-> h \o <<[kind |-> "object", ks |-> <<kMin, kActual>>,
                 vs |-> <<Num(min), inputValue>>],
                [kind |-> "object", ks |-> <<kMin>>, vs |-> <<Ref(Len(h) + 1)>>]>>,
   v |-> Ref(Len(h) + 2)]

(* a comparison that also rejects the bound itself *)
minCompareInclusive(h, min, inputValue, val) ==
  IF isNumber(val) /\ ~IsNaN(val) /\ val.n <= min
  THEN minError(h, min, inputValue)
  ELSE [h |-> h, v |-> Null]

minCompare(h, min, inputValue, val) ==
  IF isNumber(val) /\ ~IsNaN(val) /\ val.n < min
  THEN minError(h, min, inputValue)
  ELSE [h |-> h, v |-> Null]

minOf(h, min, inputValue) ==
  IF isEmpty(h, inputValue) \/ isEmpty(h, Num(min))
  THEN [h |-> h, v |-> Null]
  ELSE minCompare(h, min, inputValue,
                  IF isNumber(inputValue) THEN parseFloat(String(inputValue))
                  ELSE Prop(h, inputValue, kLength).v)

minValidator(h, min, input) == minOf(h, min, getFieldValue(h, input))

requiredValidator(h, input) ==
  IF isEmpty(h, getFieldValue(h, input))
  THEN alloc1(h, kRequired, Bool(TRUE))
  ELSE [h |-> h, v |-> Null]

requiredTrueValidator(h, input) ==
  IF getFieldValue(h, input) = Bool(TRUE)
  THEN [h |-> h, v |-> Null]
  ELSE alloc1(h, kRequired, Bool(TRUE))

nullValidator(h, input) == [h |-> h, v |-> Null]

(* validator(value): a call of what is no function throws *)
called(r) == [h |-> r.h, v |-> r.v, thr |-> FALSE]

callValidator(h, f, input) ==
  CASE f.t # "function" -> [h |-> h, v |-> Undefined, thr |-> TRUE]
    [] f.t = "function" /\ f.s = <<"min">> -> called(minValidator(h, f.n, input))
    [] f.t = "function" /\ f.s = <<"required">> ->
         called(requiredValidator(h, input))
    [] f.t = "function" /\ f.s = <<"requiredTrue">> ->
         called(requiredTrueValidator(h, input))
    [] OTHER -> called(nullValidator(h, input))

NotNull(v) == v # Null

(* the function mergeValidators returns: every validator's own result, pushed
   in order onto a new array *)
RECURSIVE pushResults(_, _, _, _)
(* a merge that keeps the errors only, dropping a passing validator's null *)
pushedErrors(r, arr, rest, input) ==
  IF r.thr THEN [h |-> r.h, thr |-> TRUE]
  ELSE pushResults(IF r.v = Null THEN r.h
                   ELSE Put(r.h, arr, NatStr(ArrLength(r.h[arr])), r.v),
                   arr, rest, input)

pushed(r, arr, rest, input) ==
  IF r.thr THEN [h |-> r.h, thr |-> TRUE]
  ELSE pushResults(Put(r.h, arr, NatStr(ArrLength(r.h[arr])), r.v),
                   arr, rest, input)

pushResults(h, arr, validatorArr, input) ==
  IF validatorArr = <<>> THEN [h |-> h, thr |-> FALSE]
  ELSE pushed(callValidator(h, Head(validatorArr), input), arr,
              Tail(validatorArr), input)

merged(r, arr) == [h |-> r.h, v |-> Ref(arr), thr |-> r.thr]

(* Validators.mergeValidators(...validators)(value): null in place of the
   function when no validator is left, and calling null throws *)
mergeFiltered(h, validatorArr, input) ==
  IF validatorArr = <<>> THEN [h |-> h, v |-> Undefined, thr |-> TRUE]
  ELSE merged(pushResults(Append(h, EmptyArray), Len(h) + 1, validatorArr, input),
              Len(h) + 1)

mergeValidators(h, validators, input) ==
  mergeFiltered(h, SelectSeq(validators, NotNull), input)

isNull(o) == o.t = "null"

(* the list handed to compose: null, or an array of validators *)
NullList == [isNull |-> TRUE, vs |-> <<>>]
ListOf(vs) == [isNull |-> FALSE, vs |-> vs]

(* isPresent: !isNull(o) || !isUndefined(o) *)
isPresent(o) == ~isNull(o) \/ ~isUndefined(o)

(* a test of presence that null and undefined fail *)
isPresentStrict(o) == ~isNull(o) /\ ~isUndefined(o)

(* Validators.executeValidators: validators.map((validator) => validator(input)) *)
RECURSIVE executeValidators(_, _, _, _)
executed(r, done, rest, input) ==
  IF r.thr THEN [h |-> r.h, vs |-> done, thr |-> TRUE]
  ELSE executeValidators(r.h, Append(done, r.v), rest, input)

executeValidators(h, done, vs, input) ==
  IF vs = <<>> THEN [h |-> h, vs |-> done, thr |-> FALSE]
  ELSE executed(callValidator(h, Head(vs), input), done, Tail(vs), input)

(* a merge in which the key reported first is kept *)
RECURSIVE putNew(_, _, _, _)
putNew(h, a, ks, vs) ==
  IF ks = <<>> THEN h
  ELSE putNew(IF SeqHas(h[a].ks, Head(ks)) THEN h ELSE Put(h, a, Head(ks), Head(vs)),
              a, Tail(ks), Tail(vs))

mergeIntoFirst(h, res, errors) ==
  IF IsRef(errors) THEN putNew(h, res, h[errors.n].ks, h[errors.n].vs) ELSE h

(* res = errors != null ? { ...res, ...errors } : res *)
mergeInto(h, res, errors) ==
  IF isNil(errors) THEN h ELSE ObjectAssign(h, res, errors)

RECURSIVE mergeEach(_, _, _)
mergeEach(h, res, arrayOfErrors) ==
  IF arrayOfErrors = <<>> THEN h
  ELSE mergeEach(mergeInto(h, res, Head(arrayOfErrors)), res, Tail(arrayOfErrors))

(* return Object.keys(res).length === 0 ? null : res *)
mergedErrors(h, res) ==
  [h |-> h, v |-> IF h[res].ks = <<>> THEN Null ELSE Ref(res)]

(* Validators.mergeErrors(arrayOfErrors) *)
mergeErrors(h, arrayOfErrors) ==
  mergedErrors(mergeEach(Append(h, EmptyObject), Len(h) + 1, arrayOfErrors),
               Len(h) + 1)

(* Validators.compose(validators): null, or the validators the function it
   returns will run *)
compose(validators) ==
  IF validators.isNull THEN [null |-> TRUE, present |-> <<>>]
  ELSE [null |-> SelectSeq(validators.vs, isPresent) = <<>>,
        present |-> SelectSeq(validators.vs, isPresent)]

(* the function compose returns, called on input *)
composedResult(r) ==
  IF r.thr THEN [h |-> r.h, v |-> Undefined, thr |-> TRUE]
  ELSE [h |-> mergeErrors(r.h, r.vs).h, v |-> mergeErrors(r.h, r.vs).v,
        thr |-> FALSE]

composed(h, presentValidators, input) ==
  composedResult(executeValidators(h, <<>>, presentValidators, input))

(* An async validator is a function whose call returns a promise of what the
   validator of the same name returns; what a call returned is a record: the
   value, and whether it is a promise of that value. *)
kThen == <<"t", "h", "e", "n">>
async(f) == Fn(<<"async">> \o f.s, f.n)
returnsPromise(f) == f.t = "function" /\ f.s # <<>> /\ Head(f.s) = "async"
bodyOf(f) == IF returnsPromise(f) THEN Fn(Tail(f.s), f.n) ELSE f

(* typeof o === 'object' is true of null *)
isObject(o) == IsRef(o) \/ isNull(o)
isFunction(o) == o.t = "function"

(* isObject(o) && isFunction(o.then): reading o.then throws on null *)
isPromise(h, x) ==
  IF x.promise THEN [thr |-> FALSE, yes |-> TRUE]
  ELSE IF isObject(x.v)
       THEN [thr |-> Prop(h, x.v, kThen).thr,
             yes |-> isFunction(Prop(h, x.v, kThen).v)]
  ELSE [thr |-> FALSE, yes |-> FALSE]

(* isPromise(value) ? value : Promise.resolve(value) *)
coerceToPromise(h, x) ==
  [thr |-> isPromise(h, x).thr,
   state |-> IF x.promise THEN "pending" ELSE "resolved",
   v |-> x.v]

(* Promise.all(observables) is fulfilled once every promise is *)
allResolved(ps) == \A j \in DOMAIN ps : ps[j].state = "resolved"

(* Validators.composeAsync(validators): null, or the validators the function
   it returns will run *)
composeAsync(validators) ==
  IF validators.isNull THEN [null |-> TRUE, present |-> <<>>]
  ELSE [null |-> SelectSeq(validators.vs, isPresent) = <<>>,
        present |-> SelectSeq(validators.vs, isPresent)]

(* executeValidators(input, presentValidators).map(coerceToPromise) *)
returned(fs, r) ==
  [j \in DOMAIN r.vs |-> [promise |-> returnsPromise(fs[j]), v |-> r.vs[j]]]

observed(h, xs) ==
  [h |-> h,
   thr |-> \E j \in DOMAIN xs : coerceToPromise(h, xs[j]).thr,
   ps |-> [j \in DOMAIN xs |-> coerceToPromise(h, xs[j])]]

observablesOf(fs, r) ==
  IF r.thr THEN [h |-> r.h, thr |-> TRUE, ps |-> <<>>]
  ELSE observed(r.h, returned(fs, r))

observables(h, presentValidators, input) ==
  observablesOf(presentValidators,
                executeValidators(h, <<>>,
                                  [j \in DOMAIN presentValidators |->
                                     bodyOf(presentValidators[j])],
                                  input))

-----------------------------------------------------------------------------
(* The functions a schema may carry: the host's code, named by what it does *)

kAddress == <<"a", "d", "d", "r", "e", "s", "s">>
kCity == <<"c", "i", "t", "y">>
kAge == <<"a", "g", "e">>

(* transform: (x) => x.toUpperCase(), (x) => x * 2 *)
callTransform(h, f, x) ==
  CASE f.t # "function" -> [v |-> Undefined, thr |-> TRUE]
    [] f.t = "function" /\ f.s = <<"upper">> ->
         IF isString(x) THEN [v |-> Str(toUpperCase(x.s)), thr |-> FALSE]
         ELSE [v |-> Undefined, thr |-> TRUE]
    [] f.t = "function" /\ f.s = <<"double">> ->
         [v |-> IF isNumber(x) /\ ~IsNaN(x) THEN Num(2 * x.n) ELSE NaN,
          thr |-> FALSE]
    [] OTHER -> [v |-> x, thr |-> FALSE]

(* Function accessor: (src) => src.address.city, (src, obj) => obj.age, and
   accessors that write to their second argument before they return:
   obj.name = 'Via', delete obj.name, obj.extra = 1 *)
kExtra == <<"e", "x", "t", "r", "a">>
read(h, r) == [h |-> h, thr |-> r.thr, v |-> r.v]
wrote(h) == [h |-> h, thr |-> FALSE, v |-> Num(1)]

callAccessor(h, f, src, o) ==
  CASE f.s = <<"city">> -> read(h, walk(h, src, <<kAddress, kCity>>))
    [] f.s = <<"prev">> -> read(h, Prop(h, Ref(o), kAge))
    [] f.s = <<"rename">> -> wrote(Put(h, o, <<"n", "a", "m", "e">>, Str(<<"V", "i", "a">>)))
    [] f.s = <<"forget">> -> wrote(Delete(h, o, <<"n", "a", "m", "e">>))
    [] f.s = <<"extra">> -> wrote(Put(h, o, kExtra, Num(1)))
    [] OTHER -> [h |-> h, thr |-> FALSE, v |-> Undefined]

-----------------------------------------------------------------------------
(* The schema resolver (index.ts) *)

NoError == [name |-> <<>>, key |-> <<>>]
TypeError == [name |-> <<"TypeError">>, key |-> <<>>]
(* new Error(`The value type specified for ${key} is not supported.`) *)
Unsupported(k) == [name |-> <<"Error">>, key |-> k]

LitHas(l, key) == SeqHas(l.ks, key)
LitField(l, key) == l.vs[IndexOf(l.ks, key)]

(* a test that takes every mapping with a path for a selector *)
isFieldSelectorByPath(l) == l.t = "object" /\ LitHas(l, kPath)

isFieldSelector(l) ==
  /\ l.t = "object"
  /\ LitHas(l, kPath)
  /\ (LitHas(l, kValidators) \/ LitHas(l, kTransform))

(* a switch whose default case takes what is of no supported type as a path *)
getActionTypeLenient(l) ==
  CASE l.t = "function" -> "FieldFn"
    [] l.t \notin {"string", "function"} /\ isFieldSelector(l) -> "FieldSelector"
    [] l.t = "array" -> "FieldAggregator"
    [] l.t = "object" /\ ~isFieldSelector(l) -> "FieldEntry"
    [] OTHER -> "FieldPaths"

getActionType(l) ==
  CASE l.t = "string" -> "FieldPaths"
    [] l.t = "function" -> "FieldFn"
    [] l.t \notin {"string", "function"} /\ isFieldSelector(l) -> "FieldSelector"
    [] l.t = "array" -> "FieldAggregator"
    [] l.t = "object" /\ ~isFieldSelector(l) -> "FieldEntry"
    [] OTHER -> "throw"

Res(h, log, v) == [h |-> h, log |-> log, thr |-> FALSE, err |-> NoError, v |-> v]
Thrown(h, log, e) == [h |-> h, log |-> log, thr |-> TRUE, err |-> e, v |-> Undefined]

(* case FieldFn: value = v(source, obj) *)
fnResult(seen, r) ==
  IF r.thr THEN Thrown(r.h, seen, TypeError) ELSE Res(r.h, seen, r.v)

(* a Function accessor handed a fresh object instead of the accumulator *)
fieldFnValueFresh(h, log, k, f, src, o) ==
  fnResult(Append(log, [key |-> k, src |-> src, obj |-> Len(h) + 1,
                        snap |-> EmptyObject]),
           callAccessor(Append(h, EmptyObject), f, src, Len(h) + 1))

fieldFnValue(h, log, k, f, src, o) ==
  fnResult(Append(log, [key |-> k, src |-> src, obj |-> o, snap |-> h[o]]),
           callAccessor(h, f, src, o))

(* case FieldAggregator: the reduce over the listed paths *)
RECURSIVE aggReduce(_, _, _, _)
aggAssign(valueObj, agg, rest, src) ==
  IF valueObj.thr THEN [h |-> valueObj.h, thr |-> TRUE]
  ELSE aggReduce(ObjectAssign(valueObj.h, agg, valueObj.ret), agg, rest, src)

aggReduce(h, agg, paths, src) ==
  IF paths = <<>> THEN [h |-> h, thr |-> FALSE]
  ELSE aggAssign(set(h, Ref(agg), LitVal(Head(paths)),
                     get(h, src, LitVal(Head(paths)))),
                 agg, Tail(paths), src)

aggResult(r, log, agg) ==
  IF r.thr THEN Thrown(r.h, log, TypeError) ELSE Res(r.h, log, Ref(agg))

aggregatorValue(h, log, v, src) ==
  aggResult(aggReduce(Append(h, EmptyObject), Len(h) + 1, v.vs, src), log,
            Len(h) + 1)

(* if (validation) ...: an object, array included, is truthy *)
Truthy(v) ==
  CASE isNil(v) -> FALSE
    [] v.t = "boolean" -> v.n = 1
    [] v.t = "number" -> ~IsNaN(v) /\ v.n # 0
    [] v.t = "string" -> v.s # <<>>
    [] OTHER -> TRUE

(* the validators of a selector as a list: Array.isArray(v) ? v : [v] *)
validatorList(vl) ==
  IF vl.t = "array" THEN [i \in DOMAIN vl.vs |-> LitVal(vl.vs[i])]
  ELSE <<LitVal(vl)>>

(* a resolver that throws what the validators report *)
selectorChooseThrowing(log, validation, inputValue) ==
  IF validation.thr \/ elements(validation.h, validation.v) # {Null}
  THEN Thrown(validation.h, log, TypeError)
  ELSE Res(validation.h, log, validation.v)

(* if (validation) { value = validation; break }; value = inputValue *)
selectorChoose(log, validation, inputValue) ==
  IF validation.thr THEN Thrown(validation.h, log, TypeError)
  ELSE IF Truthy(validation.v) THEN Res(validation.h, log, validation.v)
  ELSE Res(validation.h, log, inputValue)

selectorValidate(h, log, sel, t) ==
  IF t.thr THEN Thrown(h, log, TypeError)
  ELSE IF ~LitHas(sel, kValidators) THEN Res(h, log, t.v)
  ELSE selectorChoose(log,
                      mergeValidators(h, validatorList(LitField(sel, kValidators)),
                                      t.v),
                      t.v)

selectorTransform(h, sel, fetched) ==
  IF LitHas(sel, kTransform)
  THEN callTransform(h, LitVal(LitField(sel, kTransform)), fetched)
  ELSE [v |-> fetched, thr |-> FALSE]

(* case FieldSelector *)
selectorValue(h, log, sel, src) ==
  selectorValidate(h, log, sel,
                   selectorTransform(h, sel,
                                     get(h, src, LitVal(LitField(sel, kPath)))))

(* case FieldPaths *)
pathsValue(h, log, v, src) == Res(h, log, get(h, src, LitVal(v)))

RECURSIVE resolveSchema(_, _, _, _)

(* the switch of resolveSchema's reducer: the value of entry [k, v] *)
fieldValueOf(type, h, log, k, v, src, o) ==
  CASE type = "FieldFn" -> fieldFnValue(h, log, k, LitVal(v), src, o)
    [] type = "FieldAggregator" -> aggregatorValue(h, log, v, src)
    [] type = "FieldSelector" -> selectorValue(h, log, v, src)
    [] type = "FieldEntry" -> resolveSchema(h, log, v, src)
    [] type = "FieldPaths" -> pathsValue(h, log, v, src)
    [] OTHER -> Thrown(h, log, Unsupported(k))

fieldValue(h, log, k, v, src, o) ==
  fieldValueOf(getActionType(v), h, log, k, v, src, o)

(* Object.entries(schema).reduce(..., {}) from entry i on, into object o *)
RECURSIVE reduceEntries(_, _, _, _, _, _)
reduced(r, sch, i, src, o) ==
  IF r.thr THEN r
  ELSE reduceEntries(Put(r.h, o, sch.ks[i], r.v), r.log, sch, i + 1, src, o)

reduceEntries(h, log, sch, i, src, o) ==
  IF i > Len(sch.ks) THEN Res(h, log, Ref(o))
  ELSE reduced(fieldValue(h, log, sch.ks[i], sch.vs[i], src, o), sch, i, src, o)

resolveSchema(h, log, sch, src) ==
  reduceEntries(Append(h, EmptyObject), log, sch, 1, src, Len(h) + 1)

(* the sources hookup resolves: the elements of an array, or the one source *)
sourcesOf(h, srcArg) ==
  IF IsArray(h, srcArg)
  THEN [i \in 1..ArrLength(h[srcArg.n]) |-> Prop(h, srcArg, NatStr(i - 1)).v]
  ELSE <<srcArg>>

(* hookup(schema, source) as one function: the heap, the log and the results
   after it, or the error it threw *)
RECURSIVE mapSources(_, _, _, _, _)
mapped(r, sch, rest, done) ==
  IF r.thr
  THEN [h |-> r.h, log |-> r.log, thr |-> TRUE, err |-> r.err, results |-> <<>>]
  ELSE mapSources(r.h, r.log, sch, rest, Append(done, r.v))

mapSources(h, log, sch, srcs, done) ==
  IF srcs = <<>>
  THEN [h |-> h, log |-> log, thr |-> FALSE, err |-> NoError, results |-> done]
  ELSE mapped(resolveSchema(h, log, sch, Head(srcs)), sch, Tail(srcs), done)

hookup(h, sch, srcArg) == mapSources(h, <<>>, sch, sourcesOf(h, srcArg), <<>>)

-----------------------------------------------------------------------------
(* The data the calls are made on: the fixtures of hookup.test.ts, shortened *)

kFirstName == <<"_", "f", "i", "r", "s", "t", "N", "a", "m", "e">>
kStreet == <<"s", "t", "r", "e", "e", "t">>
kZipcode == <<"z", "i", "p", "c", "o", "d", "e">>
kAgeCap == <<"A", "g", "e">>
kJobs == <<"j", "o", "b", "s">>
kTitle == <<"t", "i", "t", "l", "e">>
kName == <<"n", "a", "m", "e">>
kFirstJob == <<"f", "i", "r", "s", "t", "J", "o", "b">>
kLocation == <<"l", "o", "c", "a", "t", "i", "o", "n">>
kHome == <<"h", "o", "m", "e">>
kTown == <<"t", "o", "w", "n">>
kBad == <<"b", "a", "d">>
kFlag == <<"f", "l", "a", "g">>
kPrev == <<"p", "r", "e", "v">>
pAddressCity == <<"a", "d", "d", "r", "e", "s", "s", ".", "c", "i", "t", "y">>
pAddressZipcode == <<"a", "d", "d", "r", "e", "s", "s", ".", "z", "i", "p", "c", "o", "d", "e">>
pAddressStreet == <<"a", "d", "d", "r", "e", "s", "s", ".", "s", "t", "r", "e", "e", "t">>
pJobTitle == <<"j", "o", "b", "s", ".", "0", ".", "t", "i", "t", "l", "e">>
pAddressNick == <<"a", "d", "d", "r", "e", "s", "s", ".", "n", "i", "c", "k">>
pAddressCommaNick == <<"a", "d", "d", "r", "e", "s", "s", ",", "n", "i", "c", "k">>
sMiro == <<"M", "i", "r", "o">>
sAna == <<"A", "n", "a">>
sAstoria == <<"A", "s", "t", "o", "r", "i", "a">>
sRome == <<"R", "o", "m", "e">>
s36th == <<"3", "6", "t", "h">>
sVia == <<"V", "i", "a">>
sCook == <<"c", "o", "o", "k">>
sChef == <<"c", "h", "e", "f">>

MinAge == 12

L(v) == LPrim(v)

Person(first, street, city, zip, age, job) ==
  LObj(<<kFirstName, kAddress, kAgeCap, kJobs>>,
       <<L(Str(first)),
         LObj(<<kStreet, kCity, kZipcode>>,
              <<L(Str(street)), L(Str(city)), L(Num(zip))>>),
         L(Num(age)),
         LArr(<<LObj(<<kTitle>>, <<L(Str(job))>>)>>)>>)

Miro == Person(sMiro, s36th, sAstoria, 11103, 10, sCook)
Ana == Person(sAna, sVia, sRome, 100, 30, sChef)

Selector(ks, vs) == LObj(ks, vs)
min(k) == L(Fn(<<"min">>, k))
required == L(Fn(<<"required">>, 0))

(* the accessors a schema is built from, in the order a schema lists them *)
EntryPool ==
  << [k |-> kName, v |-> L(Str(kFirstName))],
     [k |-> kCity, v |-> L(Fn(<<"city">>, 0))],
     [k |-> kAge, v |-> Selector(<<kPath, kValidators>>,
                                 <<L(Str(kAgeCap)), min(MinAge)>>)],
     [k |-> kAge, v |-> Selector(<<kPath, kValidators>>,
                                 <<L(Str(kAgeCap)),
                                   LArr(<<L(Null), min(MinAge), required>>)>>)],
     [k |-> kAge, v |-> Selector(<<kPath, kTransform, kValidators>>,
                                 <<L(Str(kAgeCap)), L(Fn(<<"double">>, 0)),
                                   min(MinAge)>>)],
     [k |-> kAge, v |-> Selector(<<kPath, kValidators>>,
                                 <<L(Str(kAgeCap)), L(Null)>>)],
     [k |-> kPrev, v |-> L(Fn(<<"prev">>, 0))],
     [k |-> kFirstJob, v |-> Selector(<<kPath, kTransform>>,
                                      <<L(Str(pJobTitle)), L(Fn(<<"upper">>, 0))>>)],
     [k |-> kLocation, v |-> LArr(<<L(Str(kAddress)), L(Str(pAddressZipcode))>>)],
     [k |-> kHome, v |-> LObj(<<kTown, kAge>>,
                              <<L(Str(pAddressCity)),
                                Selector(<<kPath, kValidators>>,
                                         <<L(Str(kAgeCap)), min(MinAge)>>)>>)],
     [k |-> kBad, v |-> L(Num(5))],
     [k |-> kFlag, v |-> L(Bool(TRUE))],
     [k |-> kBad, v |-> L(Null)] >>

MaxFields == 2
MaxSources == 2

RECURSIVE sorted(_)
sorted(S) ==
  IF S = {} THEN <<>>
  ELSE LET m == CHOOSE x \in S : \A y \in S : x <= y
       IN <<m>> \o sorted(S \ {m})

(* the schemas: up to MaxFields entries of the pool, each key once *)
Schemas ==
  { LET is == sorted(I)
    IN LObj([j \in DOMAIN is |-> EntryPool[is[j]].k],
            [j \in DOMAIN is |-> EntryPool[is[j]].v]) :
    I \in { J \in SUBSET DOMAIN EntryPool :
              /\ Cardinality(J) <= MaxFields
              /\ \A a, b \in J : a # b => EntryPool[a].k # EntryPool[b].k } }

(* the sources: one person, or an array of up to MaxSources persons *)
People == <<Miro, Ana>>
SourceArgs ==
  {Miro, Ana} \cup
  { LArr([i \in 1..len |-> People[((i + first) % 2) + 1]]) :
      len \in 0..MaxSources, first \in 0..1 }

-----------------------------------------------------------------------------
(* hookup(schema, source), one step per schema entry *)

srcs == sourcesOf(heap, source)

Idle == /\ target = Undefined /\ path = Undefined /\ value = Undefined
        /\ ret = Undefined /\ got = Undefined

NoField == [status |-> <<>>]

NoValidation ==
  /\ composeArg = NullList /\ inputArg = Undefined /\ output = Undefined
  /\ promises = <<>> /\ order = <<>> /\ self = NoField

Init ==
  \E sch \in Schemas, a \in SourceArgs :
    /\ heap = LoadArg(a).h
    /\ heap0 = heap
    /\ strict = TRUE
    /\ schema = sch
    /\ source = LoadArg(a).v
    /\ pc = "run" /\ si = 1 /\ fi = 0 /\ obj = 0
    /\ results = <<>> /\ err = NoError /\ fnLog = <<>>
    /\ Idle
    /\ NoValidation

(* a map whose reducer goes on with the first source's result object *)
BeginResolveShared ==
  /\ pc = "run" /\ obj = 0 /\ si <= Len(srcs)
  /\ heap' = IF results = <<>> THEN Append(heap, EmptyObject) ELSE heap
  /\ obj' = IF results = <<>> THEN Len(heap) + 1 ELSE results[1].n
  /\ fi' = 1
  /\ UNCHANGED <<heap0, strict, schema, source, pc, si, results, err, fnLog>>
  /\ UNCHANGED setVars
  /\ UNCHANGED valVars

(* the reducer's initial value {} for the next source *)
BeginResolve ==
  /\ pc = "run" /\ obj = 0 /\ si <= Len(srcs)
  /\ heap' = Append(heap, EmptyObject)
  /\ obj' = Len(heap) + 1
  /\ fi' = 1
  /\ UNCHANGED <<heap0, strict, schema, source, pc, si, results, err, fnLog>>
  /\ UNCHANGED setVars
  /\ UNCHANGED valVars

(* obj[k] = value, or the throw that ends the call *)
Reduced(r) ==
  IF r.thr
  THEN /\ pc' = "threw" /\ err' = r.err
       /\ heap' = r.h /\ fnLog' = r.log /\ fi' = fi
  ELSE /\ pc' = pc /\ err' = err
       /\ heap' = Put(r.h, obj, schema.ks[fi], r.v)
       /\ fnLog' = r.log /\ fi' = fi + 1

(* the reducer is called on entry fi, whose accessor has the given type *)
AtEntry(type) ==
  /\ pc = "run" /\ obj # 0 /\ fi <= Len(schema.ks)
  /\ getActionType(schema.vs[fi]) = type

ResolveFieldPaths ==
  /\ AtEntry("FieldPaths")
  /\ Reduced(pathsValue(heap, fnLog, schema.vs[fi], srcs[si]))
  /\ UNCHANGED <<heap0, strict, schema, source, si, obj, results>>
  /\ UNCHANGED setVars
  /\ UNCHANGED valVars

ResolveFieldFn ==
  /\ AtEntry("FieldFn")
  /\ Reduced(fieldFnValue(heap, fnLog, schema.ks[fi], LitVal(schema.vs[fi]),
                          srcs[si], obj))
  /\ UNCHANGED <<heap0, strict, schema, source, si, obj, results>>
  /\ UNCHANGED setVars
  /\ UNCHANGED valVars

ResolveFieldAggregator ==
  /\ AtEntry("FieldAggregator")
  /\ Reduced(aggregatorValue(heap, fnLog, schema.vs[fi], srcs[si]))
  /\ UNCHANGED <<heap0, strict, schema, source, si, obj, results>>
  /\ UNCHANGED setVars
  /\ UNCHANGED valVars

ResolveFieldSelector ==
  /\ AtEntry("FieldSelector")
  /\ Reduced(selectorValue(heap, fnLog, schema.vs[fi], srcs[si]))
  /\ UNCHANGED <<heap0, strict, schema, source, si, obj, results>>
  /\ UNCHANGED setVars
  /\ UNCHANGED valVars

ResolveFieldEntry ==
  /\ AtEntry("FieldEntry")
  /\ Reduced(resolveSchema(heap, fnLog, schema.vs[fi], srcs[si]))
  /\ UNCHANGED <<heap0, strict, schema, source, si, obj, results>>
  /\ UNCHANGED setVars
  /\ UNCHANGED valVars

(* getActionType throws: the reduce, the map and hookup end with the error *)
ThrowUnsupported ==
  /\ AtEntry("throw")
  /\ Reduced(Thrown(heap, fnLog, Unsupported(schema.ks[fi])))
  /\ UNCHANGED <<heap0, strict, schema, source, si, obj, results>>
  /\ UNCHANGED setVars
  /\ UNCHANGED valVars

(* the reduce is over: its accumulator is this source's result *)
EndResolve ==
  /\ pc = "run" /\ obj # 0 /\ fi > Len(schema.ks)
  /\ results' = Append(results, Ref(obj))
  /\ obj' = 0 /\ fi' = 0 /\ si' = si + 1
  /\ UNCHANGED <<heap, heap0, strict, schema, source, pc, err, fnLog>>
  /\ UNCHANGED setVars
  /\ UNCHANGED valVars

(* hookup returns: the results of the map, or the one result *)
Return ==
  /\ pc = "run" /\ obj = 0 /\ si > Len(srcs)
  /\ pc' = "done"
  /\ UNCHANGED <<heap, heap0, strict, schema, source, si, fi, obj, results, err,
                 fnLog>>
  /\ UNCHANGED setVars
  /\ UNCHANGED valVars

Next ==
  \/ BeginResolve
  \/ ResolveFieldPaths
  \/ ResolveFieldFn
  \/ ResolveFieldAggregator
  \/ ResolveFieldSelector
  \/ ResolveFieldEntry
  \/ ThrowUnsupported
  \/ EndResolve
  \/ Return

Spec == Init /\ [][Next]_vars

-----------------------------------------------------------------------------
(* hookup on a schema of one Aggregator field, over every short list of the
   paths below *)

PathPool ==
  <<kAddress, pAddressZipcode, pAddressStreet, kAgeCap, pAddressCommaNick,
    pAddressNick>>

MaxPaths == 3

PathLists ==
  UNION { [1..n -> DOMAIN PathPool] : n \in 1..MaxPaths }

AggSchema(is) ==
  LObj(<<kLocation>>, <<LArr([j \in DOMAIN is |-> L(Str(PathPool[is[j]]))])>>)

InitAgg ==
  \E is \in PathLists, a \in {Miro, Ana} :
    /\ heap = Load(<<>>, a).h
    /\ heap0 = heap
    /\ strict = TRUE
    /\ schema = AggSchema(is)
    /\ source = Load(<<>>, a).v
    /\ pc = "run" /\ si = 1 /\ fi = 0 /\ obj = 0
    /\ results = <<>> /\ err = NoError /\ fnLog = <<>>
    /\ Idle
    /\ NoValidation

NextAgg ==
  \/ BeginResolve
  \/ ResolveFieldAggregator
  \/ EndResolve
  \/ Return

SpecAgg == InitAgg /\ [][NextAgg]_vars

-----------------------------------------------------------------------------
(* set(target, path, value) followed by get(target, path) *)

kA == <<"a">>
kB == <<"b">>
kAB == <<"a", ",", "b">>
pAB == <<"a", ".", "b">>
pA0 == <<"a", ".", "0">>
pBA == <<"b", ".", "a">>
pABA == <<"a", ".", "b", ".", "a">>
pEmpty == <<>>

SetTargets ==
  { LObj(<<>>, <<>>),
    LObj(<<kA>>, <<L(Num(5))>>),
    LObj(<<kA>>, <<LObj(<<kB>>, <<L(Num(1))>>)>>),
    LObj(<<kA>>, <<LObj(<<>>, <<>>)>>),
    LObj(<<kA, kAB>>, <<L(Num(5)), L(Num(1))>>),
    LObj(<<kA, kAB>>, <<LObj(<<>>, <<>>), L(Num(1))>>),
    LArr(<<L(Num(7))>>) }

SetPaths == {kA, kB, pAB, pA0, pBA, pABA, <<"0">>, <<"1">>, pEmpty}

SetValues == {Num(2), Str(sAna), Undefined}

InitSet ==
  \E t \in SetTargets, p \in SetPaths, v \in SetValues, s \in BOOLEAN :
    /\ heap = Load(<<>>, t).h
    /\ heap0 = heap
    /\ strict = s
    /\ target = Load(<<>>, t).v
    /\ path = Str(p)
    /\ value = v
    /\ ret = Undefined /\ got = Undefined
    /\ pc = "set"
    /\ schema = LObj(<<>>, <<>>) /\ source = Undefined
    /\ si = 0 /\ fi = 0 /\ obj = 0
    /\ results = <<>> /\ err = NoError /\ fnLog = <<>>
    /\ NoValidation

(* what set left behind: the heap and the value returned, or the throw *)
SetDone(r) ==
  /\ heap' = r.h
  /\ ret' = r.ret
  /\ pc' = IF r.thr THEN "threw" ELSE "get"
  /\ err' = IF r.thr THEN TypeError ELSE err

SetCall ==
  /\ pc = "set"
  /\ SetDone(set(heap, target, path, value))
  /\ UNCHANGED <<heap0, strict, target, path, value, got>>
  /\ UNCHANGED hookupVars
  /\ UNCHANGED valVars

GetCall ==
  /\ pc = "get"
  /\ got' = get(heap, target, path)
  /\ pc' = "got"
  /\ UNCHANGED <<heap, heap0, strict, target, path, value, ret, err>>
  /\ UNCHANGED hookupVars
  /\ UNCHANGED valVars

NextSet == SetCall \/ GetCall

SpecSet == InitSet /\ [][NextSet]_vars

-----------------------------------------------------------------------------
(* What the properties below speak of *)

(* two values, each in its own heap, are equal as jest's toEqual has them:
   the same primitive, or containers of one kind with equal properties *)
MaxDepth == 6

RECURSIVE DeepEqTo(_, _, _, _, _)
DeepEqTo(h1, v1, h2, v2, fuel) ==
  IF IsRef(v1) /\ IsRef(v2)
  THEN /\ fuel > 0
       /\ h1[v1.n].kind = h2[v2.n].kind
       /\ h1[v1.n].ks = h2[v2.n].ks
       /\ \A i \in DOMAIN h1[v1.n].ks :
            DeepEqTo(h1, h1[v1.n].vs[i], h2, h2[v2.n].vs[i], fuel - 1)
  ELSE v1 = v2

DeepEq(h1, v1, h2, v2) == DeepEqTo(h1, v1, h2, v2, MaxDepth)

(* the entries of the schema whose values the object under construction
   holds already *)
Resolved == IF obj = 0 THEN {} ELSE 1..(fi - 1)

field(i) == Prop(heap, Ref(obj), schema.ks[i]).v

WithValidators(i) ==
  /\ getActionType(schema.vs[i]) = "FieldSelector"
  /\ LitHas(schema.vs[i], kValidators)

(* the value a selector hands to its validators: fetched, then transformed *)
inputOf(sel, src) ==
  selectorTransform(heap, sel, get(heap, src, LitVal(LitField(sel, kPath)))).v

(* the validators mergeValidators keeps, and what each says of the input *)
supplied(sel) == SelectSeq(validatorList(LitField(sel, kValidators)), NotNull)
verdictOf(f, x) == callValidator(heap, f, x)

Accepted(sel, src) ==
  \A j \in DOMAIN supplied(sel) :
    verdictOf(supplied(sel)[j], inputOf(sel, src)).v = Null

Failed(sel, src) ==
  \E j \in DOMAIN supplied(sel) :
    verdictOf(supplied(sel)[j], inputOf(sel, src)).v # Null

(* v is the mapping {min: {min: m, actual: x}} *)
IsMinError(h, v, m, x) ==
  /\ IsObject(h, v)
  /\ h[v.n].ks = <<kMin>>
  /\ IsObject(h, h[v.n].vs[1])
  /\ h[h[v.n].vs[1].n].ks = <<kMin, kActual>>
  /\ h[h[v.n].vs[1].n].vs = <<Num(m), x>>

-----------------------------------------------------------------------------
(* C1: a Selector whose validators all accept the value fetched at its path
   (after the optional transform) has that value as the field's value. *)
C1_AcceptedSelectorKeepsValue ==
  \A i \in Resolved :
    (WithValidators(i) /\ Accepted(schema.vs[i], srcs[si]))
      => field(i) = inputOf(schema.vs[i], srcs[si])

(* C2 as the specification has it: a Selector whose value fails its
   validators has the validation-errors mapping itself as the field's value,
   {min: {min: 12, actual: 10}} for min(12) on 10. *)
C2_FailedSelectorIsErrorMapping ==
  \A i \in Resolved :
    (WithValidators(i) /\ Failed(schema.vs[i], srcs[si]))
      => IsMinError(heap, field(i), MinAge, inputOf(schema.vs[i], srcs[si]))

(* C2, amended: a Selector whose value fails its validators has, in place of
   the underlying value, a list that holds the validation-errors mapping,
   [{min: {min: 12, actual: 10}}] for min(12) on 10. *)
C2_FailedSelectorHoldsErrorMapping ==
  \A i \in Resolved :
    (WithValidators(i) /\ Failed(schema.vs[i], srcs[si]))
      => /\ IsArray(heap, field(i))
         /\ field(i) # inputOf(schema.vs[i], srcs[si])
         /\ \E e \in elements(heap, field(i)) :
              IsMinError(heap, e, MinAge, inputOf(schema.vs[i], srcs[si]))

C2_Witness ==
  \E i \in Resolved :
    /\ WithValidators(i) /\ Failed(schema.vs[i], srcs[si])
    /\ ~LitHas(schema.vs[i], kTransform)
    /\ inputOf(schema.vs[i], srcs[si]) = Num(10)
    /\ IsArray(heap, field(i))

(* C3: the field of a Selector whose value fails validation is a list with
   one entry per supplied non-null validator, in the validators' order, each
   entry that validator's own result. *)
C3_OneEntryPerValidator ==
  \A i \in Resolved :
    (WithValidators(i) /\ Failed(schema.vs[i], srcs[si]))
      => /\ IsArray(heap, field(i))
         /\ heap[field(i).n].ks =
              [j \in DOMAIN supplied(schema.vs[i]) |-> NatStr(j - 1)]
         /\ \A j \in DOMAIN supplied(schema.vs[i]) :
              DeepEq(heap, heap[field(i).n].vs[j],
                     verdictOf(supplied(schema.vs[i])[j],
                               inputOf(schema.vs[i], srcs[si])).h,
                     verdictOf(supplied(schema.vs[i])[j],
                               inputOf(schema.vs[i], srcs[si])).v)

C3_Witness ==
  \E i \in Resolved :
    /\ WithValidators(i) /\ Failed(schema.vs[i], srcs[si])
    /\ Len(supplied(schema.vs[i])) = 2
    /\ Len(validatorList(LitField(schema.vs[i], kValidators))) = 3
    /\ heap[field(i).n].vs[2] = Null

-----------------------------------------------------------------------------
(* the schema with the null validator, which accepts every value, in place
   of each top-level selector's validators: the schema "had they passed" *)
relaxedEntry(l) ==
  IF getActionType(l) = "FieldSelector" /\ LitHas(l, kValidators)
  THEN [l EXCEPT !.vs[IndexOf(l.ks, kValidators)] = L(Fn(<<"null">>, 0))]
  ELSE l

Relaxed(sch) == [sch EXCEPT !.vs = [i \in DOMAIN sch.vs |-> relaxedEntry(sch.vs[i])]]

(* the value of field k when hookup resolves sch from src alone *)
valueIn(r, k) == [h |-> r.h, v |-> Prop(r.h, r.results[1], k).v]
aloneValue(sch, src, k) == valueIn(hookup(heap0, sch, src), k)

SameAsRelaxed(i) ==
  DeepEq(heap, field(i),
         aloneValue(Relaxed(schema), srcs[si], schema.ks[i]).h,
         aloneValue(Relaxed(schema), srcs[si], schema.ks[i]).v)

FailedHere(i) == WithValidators(i) /\ Failed(schema.vs[i], srcs[si])

(* every entry of the schema has its value in the object under construction *)
AllResolved == pc = "run" /\ obj # 0 /\ fi > Len(schema.ks)

(* a Function accessor that reads the result so far, its second argument *)
ReadsResult(l) == l.t = "function" /\ l.s = <<"prev">>

(* C4 as the specification has it: a validation failure is not thrown and
   does not stop resolution; the result holds exactly the schema's keys and
   every field other than the failing Selector has the value it would have
   had the Selector passed. *)
C4_SiblingsUnaffected ==
  /\ pc = "threw" => ~FailedHere(fi)
  /\ (AllResolved /\ \E i \in Resolved : FailedHere(i))
       => /\ heap[obj].ks = schema.ks
          /\ \A i \in Resolved : ~FailedHere(i) => SameAsRelaxed(i)

(* C4, amended: the same, for every field other than the failing Selector
   and other than a Function accessor that reads the failing field from the
   result so far. *)
C4_SiblingsNotReadingUnaffected ==
  /\ pc = "threw" => ~FailedHere(fi)
  /\ (AllResolved /\ \E i \in Resolved : FailedHere(i))
       => /\ heap[obj].ks = schema.ks
          /\ \A i \in Resolved :
               (~FailedHere(i) /\ ~ReadsResult(schema.vs[i])) => SameAsRelaxed(i)

C4_Witness ==
  /\ AllResolved
  /\ \E i, j \in Resolved :
       /\ i < j /\ FailedHere(i)
       /\ ~ReadsResult(schema.vs[j]) /\ ~isUndefined(field(j))
       /\ SameAsRelaxed(j)

-----------------------------------------------------------------------------
(* an accessor that is none of string, function, array and object *)
UnsupportedShape(l) == l.t \notin {"string", "function", "array", "object"}

UnsupportedEntries == {i \in DOMAIN schema.vs : UnsupportedShape(schema.vs[i])}

FirstUnsupported ==
  CHOOSE i \in UnsupportedEntries : \A j \in UnsupportedEntries : i <= j

(* C5 as the specification has it: a schema with an entry of no supported
   type makes resolveSchema throw the error naming that entry's key, and
   hookup returns nothing. *)
C5_UnsupportedAlwaysThrowsItsKey ==
  UnsupportedEntries # {}
    => /\ pc # "done"
       /\ pc = "threw" => \E i \in UnsupportedEntries :
                            err = Unsupported(schema.ks[i])

(* C5, amended: with such an entry hookup returns only when it was given no
   source at all; a resolution never goes past the first such entry, ends
   with a throw and adds no result, and what is thrown is the error naming
   the first such entry's key unless an earlier entry's accessor threw. *)
C5_UnsupportedStopsResolution ==
  UnsupportedEntries # {}
    => /\ pc = "done" => srcs = <<>>
       /\ results = <<>>
       /\ obj # 0 => fi <= FirstUnsupported
       /\ pc = "threw"
            => \/ fi = FirstUnsupported
                  /\ err = Unsupported(schema.ks[FirstUnsupported])
               \/ fi < FirstUnsupported
                  /\ ~UnsupportedShape(schema.vs[fi])
                  /\ err = TypeError

C5_Witness ==
  /\ pc = "threw"
  /\ UnsupportedEntries = {2}
  /\ fi = 2
  /\ heap[obj].ks = <<schema.ks[1]>>
  /\ err = Unsupported(schema.ks[2])
  /\ results = <<>>

-----------------------------------------------------------------------------
(* hookup(schema, s) on the one source s, from the heap of the call *)
alone(src) == hookup(heap0, schema, src)

SameAsAlone(i) ==
  /\ ~alone(srcs[i]).thr
  /\ DeepEq(heap, results[i], alone(srcs[i]).h, alone(srcs[i]).results[1])

(* the keys of the schema's entries before the entry of key k *)
keysBefore(k) == SubSeq(schema.ks, 1, IndexOf(schema.ks, k) - 1)

(* C6: on an array of n sources hookup returns n results, the i-th equal to
   hookup on the i-th source alone, each built in an object of its own: what
   a Function accessor is handed as the result so far holds the fields
   resolved before it from its own source and nothing else. *)
C6_SourcesResolvedIndependently ==
  IsArray(heap0, source)
    => /\ pc = "done" => Len(results) = Len(srcs)
       /\ \A i \in DOMAIN results : SameAsAlone(i)
       /\ \A i, j \in DOMAIN results : i # j => results[i] # results[j]
       /\ \A e \in DOMAIN fnLog :
            /\ fnLog[e].snap.ks = keysBefore(fnLog[e].key)
            /\ \A i \in DOMAIN results :
                 results[i].n = fnLog[e].obj => srcs[i] = fnLog[e].src

C6_Witness ==
  /\ IsArray(heap0, source)
  /\ pc = "done"
  /\ Len(results) = 2
  /\ Len(fnLog) = 2
  /\ fnLog[2].snap.ks # <<>>
  /\ ~DeepEq(heap, results[1], heap, results[2])

-----------------------------------------------------------------------------
(* the Aggregator field of a schema whose first entry is one: the paths it
   lists, and each path's segments *)
listed == [j \in DOMAIN schema.vs[1].vs |-> schema.vs[1].vs[j].s]

AggregatorResolved ==
  /\ Len(schema.vs) > 0
  /\ getActionType(schema.vs[1]) = "FieldAggregator"
  /\ 1 \in Resolved

IsPrefix(a, b) == Len(a) <= Len(b) /\ SubSeq(b, 1, Len(a)) = a
IsProperPrefix(a, b) == Len(a) < Len(b) /\ IsPrefix(a, b)

Outermost(p) ==
  \A j \in DOMAIN listed : ~IsProperPrefix(split(p), split(listed[j]))

Retained(p) ==
  DeepEq(heap, get(heap, field(1), Str(p)), heap, get(heap, srcs[si], Str(p)))

(* C7: every listed path that is no proper prefix of another listed path is
   in the Aggregator field's value with the value the source has there,
   whatever else is listed. *)
C7_ListedPathsRetained ==
  AggregatorResolved
    => \A j \in DOMAIN listed : Outermost(listed[j]) => Retained(listed[j])

(* some listed path has the given segments as a prefix *)
OnListedPath(segs) == \E j \in DOMAIN listed : IsPrefix(segs, split(listed[j]))
BelowListed(k) == \E j \in DOMAIN listed : IsProperPrefix(<<k>>, split(listed[j]))

keysOf(h, v) == IF IsRef(v) THEN {h[v.n].ks[i] : i \in DOMAIN h[v.n].ks} ELSE {}

IsAddressZipcode(h, v) ==
  /\ IsObject(h, v) /\ h[v.n].ks = <<kAddress>>
  /\ IsObject(h, h[v.n].vs[1])
  /\ h[h[v.n].vs[1].n].ks = <<kZipcode>>
  /\ h[h[v.n].vs[1].n].vs = <<get(h, srcs[si], Str(pAddressZipcode))>>

(* C8: every key of the aggregated object lies on a listed path at the same
   depth, in whatever order the paths are listed; 'address' with
   'address.zipcode' gives {address: {zipcode}} in either order. *)
C8_OnlyListedPaths ==
  AggregatorResolved
    => /\ \A k \in keysOf(heap, field(1)) :
            /\ OnListedPath(<<k>>)
            /\ BelowListed(k)
                 => \A k2 \in keysOf(heap, Prop(heap, field(1), k).v) :
                      OnListedPath(<<k, k2>>)
       /\ listed \in {<<kAddress, pAddressZipcode>>, <<pAddressZipcode, kAddress>>}
            => IsAddressZipcode(heap, field(1))

(* C9: every object reachable from the source has after the call the keys
   and values it had before it. *)
C9_SourceNeverMutated ==
  \A a \in DOMAIN heap0 : heap[a] = heap0[a]

(* C10: for a non-empty dotted path at which target holds nothing, get after
   set returns the value set. *)
C10_GetAfterSet ==
  (path.s # <<>> /\ isUndefined(get(heap0, target, path)))
    => /\ pc # "threw"
       /\ pc = "got" => got = value

-----------------------------------------------------------------------------
(* what target held at path when set was called: the walk of the segments *)
heldBefore == walk(heap0, target, split(path.s))

DefinedBefore == ~heldBefore.thr /\ ~isUndefined(heldBefore.v)

SetReturned == pc \in {"get", "got"}

(* C11: where target holds a defined value at path, of whatever length, set
   leaves target as it was and returns the value held. *)
C11_SetNonDestructive ==
  DefinedBefore
    => /\ pc # "threw"
       /\ SetReturned => (heap = heap0 /\ ret = heldBefore.v)

-----------------------------------------------------------------------------
(* get(target, path) on its own *)

kC == <<"c">>
kD == <<"d">>
kE == <<"e">>
kN == <<"n">>
kList == <<"l", "i", "s", "t">>

GetTargets ==
  { LObj(<<kA, kList>>,
         <<LObj(<<kB, kC, kD, kE>>,
                <<L(Num(0)), L(Str(<<>>)), L(Bool(FALSE)), L(Null)>>),
           LArr(<<LObj(<<kN>>, <<L(Num(1))>>), L(Num(0))>>)>>),
    LObj(<<kA>>, <<L(Num(5))>>),
    LObj(<<kA, kList>>, <<LObj(<<kB>>, <<L(Str(sAna))>>), LArr(<<>>)>>),
    LObj(<<>>, <<>>),
    LArr(<<L(Num(7))>>) }

GetPaths ==
  { <<"a">>,
    <<"a", ".", "b">>,
    <<"a", ".", "c">>,
    <<"a", ".", "d">>,
    <<"a", ".", "e">>,
    <<"l", "i", "s", "t">>,
    <<"l", "i", "s", "t", ".", "0">>,
    <<"l", "i", "s", "t", ".", "0", ".", "n">>,
    <<"l", "i", "s", "t", ".", "1">>,
    <<"l", "i", "s", "t", ".", "2">>,
    <<"l", "i", "s", "t", ".", "l", "e", "n", "g", "t", "h">>,
    <<"x">>,
    <<"x", ".", "y">>,
    <<"a", ".", "b", ".", "z">>,
    <<"a", ".", "x", ".", "y">>,
    <<"a", ".", "e", ".", "x">>,
    <<"l", "i", "s", "t", ".", "5", ".", "n">>,
    <<>> }

InitGet ==
  \E t \in GetTargets, p \in GetPaths :
    /\ heap = Load(<<>>, t).h
    /\ heap0 = heap
    /\ strict = TRUE
    /\ target = Load(<<>>, t).v
    /\ path = Str(p)
    /\ value = Undefined
    /\ ret = Undefined /\ got = Undefined
    /\ pc = "get"
    /\ schema = LObj(<<>>, <<>>) /\ source = Undefined
    /\ si = 0 /\ fi = 0 /\ obj = 0
    /\ results = <<>> /\ err = NoError /\ fnLog = <<>>
    /\ NoValidation

NextGet == GetCall

SpecGet == InitGet /\ [][NextGet]_vars

(* the value found by going from o down the own properties named by segs,
   if each of them is there *)
RECURSIVE ReachOf(_, _, _)
ReachOf(h, o, segs) ==
  IF segs = <<>> THEN [ok |-> TRUE, v |-> o]
  ELSE IF IsRef(o) /\ SeqHas(h[o.n].ks, Head(segs))
       THEN ReachOf(h, h[o.n].vs[IndexOf(h[o.n].ks, Head(segs))], Tail(segs))
  ELSE IF IsArray(h, o) /\ segs = <<kLength>>
       THEN [ok |-> TRUE, v |-> Num(ArrLength(h[o.n]))]
  ELSE [ok |-> FALSE, v |-> Undefined]

reached == ReachOf(heap, target, split(path.s))

(* C12: where the segments of path lead through target to a value, get
   returns that value, falsy or not, numeric segments indexing sequences. *)
C12_GetReturnsValueAtPath ==
  (pc = "got" /\ reached.ok) => got = reached.v

C12_Witness ==
  /\ pc = "got" /\ reached.ok
  /\ Len(split(path.s)) = 2
  /\ got \in {Num(0), Str(<<>>), Bool(FALSE)}
  /\ IsArray(heap, Prop(heap, target, kList).v)

(* C13: where path leads to no defined value in target, get does not throw
   and returns target itself, be it an intermediate segment or only the last
   one that is absent. *)
C13_GetFailsSoftlyToTarget ==
  (pc = "got" /\ (~reached.ok \/ isUndefined(reached.v))) => got = target

(* the first k segments of path lead to nothing defined: a segment among
   them is absent *)
reachedBy(k) == ReachOf(heap, target, SubSeq(split(path.s), 1, k))
AbsentBy(k) == ~reachedBy(k).ok \/ isNil(reachedBy(k).v)

IntermediateAbsent == \E k \in 1..(Len(split(path.s)) - 1) : AbsentBy(k)

OnlyFinalAbsent ==
  /\ ~IntermediateAbsent
  /\ ~reached.ok \/ isUndefined(reached.v)

(* C13, amended: get never throws; where a segment before the last one is
   absent (the walk meets null or undefined with segments left) it returns
   target itself, and where only the last segment is absent it returns
   undefined. *)
C13_GetFailsSoftly ==
  /\ pc # "threw"
  /\ pc = "got" => /\ IntermediateAbsent => got = target
                   /\ OnlyFinalAbsent => got = Undefined

C13_Witness ==
  /\ pc = "got"
  /\ IntermediateAbsent
  /\ reachedBy(1).ok /\ IsObject(heap, reachedBy(1).v)
  /\ got = target

-----------------------------------------------------------------------------
(* Validators.compose(list), and the validator it returns called on a value *)

ValidatorPool ==
  <<Fn(<<"min">>, MinAge), Fn(<<"min">>, 20), Fn(<<"required">>, 0),
    Fn(<<"requiredTrue">>, 0), Null, Undefined>>

MaxValidators == 2

ComposeArgs ==
  {NullList} \cup
  UNION { { ListOf([j \in 1..n |-> ValidatorPool[f[j]]]) :
            f \in [1..n -> DOMAIN ValidatorPool] } : n \in 0..MaxValidators }

(* the values validated: bare, or wrapped as {value: v} *)
InputPool ==
  { L(Num(10)), L(Num(15)), L(Num(30)), L(Str(<<>>)), L(Bool(TRUE)), L(Null),
    LObj(<<kValue>>, <<L(Num(10))>>) }

NoCall ==
  /\ Idle
  /\ schema = LObj(<<>>, <<>>) /\ source = Undefined
  /\ si = 0 /\ fi = 0 /\ obj = 0
  /\ results = <<>> /\ err = NoError /\ fnLog = <<>>
  /\ promises = <<>> /\ order = <<>> /\ self = NoField

InitCompose ==
  \E vs \in ComposeArgs, x \in InputPool :
    /\ heap = Load(<<>>, x).h
    /\ heap0 = heap
    /\ strict = TRUE
    /\ composeArg = vs
    /\ inputArg = Load(<<>>, x).v
    /\ output = Undefined
    /\ pc = "compose"
    /\ NoCall

(* const validator = Validators.compose(list) *)
Compose ==
  /\ pc = "compose"
  /\ pc' = IF compose(composeArg).null THEN "null" ELSE "composed"
  /\ UNCHANGED <<heap, heap0, strict, err, composeArg, inputArg, output,
                 promises, order, self>>
  /\ UNCHANGED hookupVars
  /\ UNCHANGED setVars

Validated(r) ==
  /\ heap' = r.h
  /\ output' = r.v
  /\ pc' = IF r.thr THEN "threw" ELSE "validated"
  /\ err' = IF r.thr THEN TypeError ELSE err

(* validator(input) *)
Validate ==
  /\ pc = "composed"
  /\ Validated(composed(heap, compose(composeArg).present, inputArg))
  /\ UNCHANGED <<heap0, strict, composeArg, inputArg, promises, order, self>>
  /\ UNCHANGED hookupVars
  /\ UNCHANGED setVars

NextCompose == Compose \/ Validate

SpecCompose == InitCompose /\ [][NextCompose]_vars

(* the validators of the list that are there, and whether compose returned a
   function *)
presentOnly == SelectSeq(composeArg.vs, isPresentStrict)
ComposedFn == pc \in {"composed", "validated", "threw"}

(* C14: compose leaves out the absent entries of the list: the validator it
   returns calls the present ones only and does not fail on an absent one,
   and compose returns null for a null list and for a list of absent
   entries only. *)
C14_ComposeFiltersAbsent ==
  /\ pc # "threw"
  /\ (composeArg.isNull \/ presentOnly = <<>>) => ~ComposedFn
  /\ pc = "validated"
       => DeepEq(heap, output, composed(heap0, presentOnly, inputArg).h,
                 composed(heap0, presentOnly, inputArg).v)

(* what the j-th validator of the list says of the input *)
saidBy(j) == callValidator(heap0, composeArg.vs[j], inputArg)
reportedBy(j) == keysOf(saidBy(j).h, saidBy(j).v)

(* the last validator of the list that reports key k *)
lastOn(k) ==
  CHOOSE j \in DOMAIN composeArg.vs :
    /\ k \in reportedBy(j)
    /\ \A i \in DOMAIN composeArg.vs : k \in reportedBy(i) => i <= j

(* C15: the validator compose returns gives one mapping with every error key
   reported by a validator of the list on the input, a key reported twice
   having the value of the later validator, and null exactly when no
   validator reported an error. *)
C15_ComposeMergesErrors ==
  pc = "validated"
    => /\ output = Null <=> \A j \in DOMAIN composeArg.vs : saidBy(j).v = Null
       /\ output # Null => IsObject(heap, output)
       /\ keysOf(heap, output) = UNION {reportedBy(j) : j \in DOMAIN composeArg.vs}
       /\ \A k \in keysOf(heap, output) :
            DeepEq(heap, Prop(heap, output, k).v, saidBy(lastOn(k)).h,
                   Prop(saidBy(lastOn(k)).h, saidBy(lastOn(k)).v, k).v)

C15_Witness ==
  /\ pc = "validated"
  /\ Len(composeArg.vs) = 2
  /\ reportedBy(1) = {kMin} /\ reportedBy(2) = {kMin}
  /\ ~DeepEq(saidBy(1).h, saidBy(1).v, saidBy(2).h, saidBy(2).v)
  /\ IsObject(heap, output)

-----------------------------------------------------------------------------
(* isEmpty(value) and Validators.min(n)(value), each on one value *)

MaxNumber == 3
Numbers == (0 - MaxNumber)..MaxNumber

ValuePool ==
  { L(Num(k)) : k \in Numbers } \cup
  { L(NaN), L(Null), L(Undefined), L(Str(<<>>)), L(Str(sAna)), L(Bool(TRUE)),
    L(Bool(FALSE)), LObj(<<>>, <<>>), LObj(<<kA>>, <<L(Num(0))>>),
    LArr(<<>>), LArr(<<L(Num(0))>>) }

(* a FieldValue is the value or a mapping that holds it under 'value' *)
FieldValues == ValuePool \cup { LObj(<<kValue>>, <<x>>) : x \in ValuePool }

InitValue ==
  \E n \in Numbers, x \in FieldValues :
    /\ heap = Load(<<>>, x).h
    /\ heap0 = heap
    /\ strict = TRUE
    /\ composeArg = ListOf(<<Fn(<<"min">>, n)>>)
    /\ inputArg = Load(<<>>, x).v
    /\ output = Undefined
    /\ pc = "value"
    /\ NoCall

(* isEmpty(input) *)
IsEmptyCall ==
  /\ pc = "value"
  /\ pc' = "isEmpty"
  /\ output' = Bool(isEmpty(heap, inputArg))
  /\ UNCHANGED <<heap, heap0, strict, err, composeArg, inputArg, promises,
                 order, self>>
  /\ UNCHANGED hookupVars
  /\ UNCHANGED setVars

(* Validators.min(n)(input) *)
MinCall ==
  /\ pc = "value"
  /\ pc' = "min"
  /\ heap' = callValidator(heap, composeArg.vs[1], inputArg).h
  /\ output' = callValidator(heap, composeArg.vs[1], inputArg).v
  /\ UNCHANGED <<heap0, strict, err, composeArg, inputArg, promises, order, self>>
  /\ UNCHANGED hookupVars
  /\ UNCHANGED setVars

NextValue == IsEmptyCall \/ MinCall

SpecValue == InitValue /\ [][NextValue]_vars

(* an object or array without properties *)
HoldsNothing(h, v) == IsRef(v) /\ h[v.n].ks = <<>>

(* C16: isEmpty is false of 0 and of every other number and of a non-empty
   string, and true of null, undefined, an empty mapping, an empty sequence
   and the empty string. *)
C16_IsEmpty ==
  pc = "isEmpty"
    => /\ inputArg.t = "number" => output = Bool(FALSE)
       /\ (inputArg.t = "string" /\ inputArg.s # <<>>) => output = Bool(FALSE)
       /\ inputArg \in {Null, Undefined, Str(<<>>)} => output = Bool(TRUE)
       /\ HoldsNothing(heap, inputArg) => output = Bool(TRUE)

C16_Witness == pc = "isEmpty" /\ inputArg = Num(0) /\ output = Bool(FALSE)

(* the bound of the min validator called, and the value it is called on: the
   input, or what it holds under 'value' *)
bound == composeArg.vs[1].n
IsWrapped ==
  /\ IsRef(inputArg) /\ heap0[inputArg.n].kind = "object"
  /\ \E i \in DOMAIN heap0[inputArg.n].ks : heap0[inputArg.n].ks[i] = kValue
validated ==
  IF IsWrapped
  THEN heap0[inputArg.n].vs[CHOOSE i \in DOMAIN heap0[inputArg.n].ks :
                                  heap0[inputArg.n].ks[i] = kValue]
  ELSE inputArg
IsANumber(v) == v.t = "number" /\ v # NaN

(* C17: min(n) on a number v, bare or wrapped as {value: v}, returns
   {min: {min: n, actual: v}} when v < n and null when v >= n, 0 being a
   number like any other; on null, undefined, an empty value and NaN it
   returns null. *)
C17_MinValidator ==
  pc = "min"
    => /\ (IsANumber(validated) /\ validated.n < bound)
            => IsMinError(heap, output, bound, validated)
       /\ (IsANumber(validated) /\ validated.n >= bound) => output = Null
       /\ validated \in {Null, Undefined, NaN, Str(<<>>)} => output = Null
       /\ HoldsNothing(heap0, validated) => output = Null

C17_Witness ==
  /\ pc = "min" /\ IsWrapped /\ validated = Num(0) /\ bound = 1
  /\ IsMinError(heap, output, 1, Num(0))

-----------------------------------------------------------------------------
(* hookup on schemas of two levels whose Function accessors stand before and
   after the entries they read *)

ageSelector == Selector(<<kPath, kValidators>>, <<L(Str(kAgeCap)), min(MinAge)>>)
prevFn == L(Fn(<<"prev">>, 0))

LevelPool ==
  << [k |-> kPrev, v |-> prevFn],
     [k |-> kName, v |-> L(Str(kFirstName))],
     [k |-> kAge, v |-> ageSelector],
     [k |-> kPrev, v |-> prevFn],
     [k |-> kLocation, v |-> LArr(<<L(Str(kAddress))>>)],
     [k |-> kHome, v |-> LObj(<<kTown, kAge, kPrev, kCity>>,
                              <<L(Str(pAddressCity)), ageSelector, prevFn,
                                L(Fn(<<"city">>, 0))>>)],
     [k |-> kBad, v |-> L(Num(5))] >>

MaxLevelFields == 3

LevelSchemas ==
  { LET is == sorted(I)
    IN LObj([j \in DOMAIN is |-> LevelPool[is[j]].k],
            [j \in DOMAIN is |-> LevelPool[is[j]].v]) :
    I \in { J \in SUBSET DOMAIN LevelPool :
              /\ Cardinality(J) <= MaxLevelFields
              /\ \A a, b \in J : a # b => LevelPool[a].k # LevelPool[b].k } }

InitLevels ==
  \E sch \in LevelSchemas, a \in SourceArgs :
    /\ heap = LoadArg(a).h
    /\ heap0 = heap
    /\ strict = TRUE
    /\ schema = sch
    /\ source = LoadArg(a).v
    /\ pc = "run" /\ si = 1 /\ fi = 0 /\ obj = 0
    /\ results = <<>> /\ err = NoError /\ fnLog = <<>>
    /\ Idle
    /\ NoValidation

SpecLevels == InitLevels /\ [][Next]_vars

(* the accumulators of the top level: one per source begun *)
topObjs == {results[i].n : i \in DOMAIN results} \cup {obj}

(* the schema level whose reducer made call e of a Function accessor: the
   schema itself, or the nested schema under 'home'; an object that is the
   accumulator of neither belongs to no level, which has no entries *)
levelOf(e) ==
  CASE fnLog[e].obj \in topObjs -> schema
    [] fnLog[e].obj \notin topObjs /\ SeqHas(schema.ks, kHome) ->
         schema.vs[IndexOf(schema.ks, kHome)]
    [] OTHER -> LObj(<<>>, <<>>)

(* the entries of that level before the one called, as a schema *)
entriesBefore(lvl, k) ==
  LObj(SubSeq(lvl.ks, 1, IndexOf(lvl.ks, k) - 1),
       SubSeq(lvl.vs, 1, IndexOf(lvl.ks, k) - 1))

GivenEntriesBefore(e, before) ==
  /\ fnLog[e].snap.ks = before.ks
  /\ ~hookup(heap0, before, fnLog[e].src).thr
  /\ \A j \in DOMAIN before.ks :
       DeepEq(heap, fnLog[e].snap.vs[j],
              aloneValue(before, fnLog[e].src, before.ks[j]).h,
              aloneValue(before, fnLog[e].src, before.ks[j]).v)

(* C18: the entries of a schema level are resolved in entry order into one
   accumulating object, and the Function accessor of the k-th entry of a
   level is handed an object holding exactly the keys of entries 1..k-1 of
   that level, each with the value it resolved to, and none of the later
   ones. *)
C18_ResultSoFar ==
  /\ (pc = "run" /\ obj # 0) => heap[obj].ks = SubSeq(schema.ks, 1, fi - 1)
  /\ \A e \in DOMAIN fnLog :
       /\ SeqHas(levelOf(e).ks, fnLog[e].key)
       /\ GivenEntriesBefore(e, entriesBefore(levelOf(e), fnLog[e].key))

C18_Witness ==
  /\ pc = "done"
  /\ \E e \in DOMAIN fnLog :
       /\ fnLog[e].obj \notin topObjs
       /\ fnLog[e].key = kCity
       /\ fnLog[e].snap.ks = <<kTown, kAge, kPrev>>
  /\ \E e \in DOMAIN fnLog :
       /\ fnLog[e].obj \in topObjs
       /\ fnLog[e].snap.ks = <<kName>>
       /\ fnLog[e].snap.vs[1] = Str(sAna)

-----------------------------------------------------------------------------
(* what set leaves alone: the segments of its path, and what target held
   after the first k of them when set was called *)
setSegs == split(path.s)
onPath(k) == ReachOf(heap0, target, SubSeq(setSegs, 1, k))

(* key i of object a is the location named by a prefix of the path *)
NamedByPath(a, i) ==
  \E k \in 1..Len(setSegs) :
    /\ onPath(k - 1).ok /\ onPath(k - 1).v = Ref(a)
    /\ heap0[a].ks[i] = setSegs[k]

OffPathKept ==
  \A a \in DOMAIN heap0 :
    \A i \in DOMAIN heap0[a].ks :
      ~NamedByPath(a, i)
        => /\ SeqHas(heap[a].ks, heap0[a].ks[i])
           /\ Prop(heap, Ref(a), heap0[a].ks[i]).v = heap0[a].vs[i]

ContainersKept ==
  \A k \in 1..(Len(setSegs) - 1) :
    (onPath(k).ok /\ IsRef(onPath(k).v))
      => ReachOf(heap, target, SubSeq(setSegs, 1, k)).v = onPath(k).v

(* C19: set changes only the location its path names: a key of target that
   is not on the path keeps its value, a container already on the path is
   descended into and not replaced, and at most one container is created
   per segment. *)
C19_SetChangesOnlyPath ==
  SetReturned
    => /\ OffPathKept
       /\ ContainersKept
       /\ Len(heap) - Len(heap0) <= Len(setSegs) - 1

-----------------------------------------------------------------------------
(* Validators.composeAsync(list)(input): the validators are called in list
   order, their promises resolve in any order, and the merge follows the last
   of them *)

AsyncPool ==
  <<async(Fn(<<"min">>, MinAge)), async(Fn(<<"min">>, 20)),
    async(Fn(<<"required">>, 0)), Fn(<<"min">>, MinAge), Fn(<<"required">>, 0)>>

AsyncArgs ==
  {NullList} \cup
  UNION { { ListOf([j \in 1..n |-> AsyncPool[f[j]]]) :
            f \in [1..n -> DOMAIN AsyncPool] } : n \in 0..MaxValidators }

AsyncInputs == { Num(10), Num(15), Num(30), Str(<<>>) }

InitAsync ==
  \E vs \in AsyncArgs, x \in AsyncInputs :
    /\ heap = <<>>
    /\ heap0 = heap
    /\ strict = TRUE
    /\ composeArg = vs
    /\ inputArg = x
    /\ output = Undefined
    /\ pc = "composeAsync"
    /\ NoCall

(* const validator = Validators.composeAsync(list) *)
ComposeAsync ==
  /\ pc = "composeAsync"
  /\ pc' = IF composeAsync(composeArg).null THEN "null" ELSE "composed"
  /\ UNCHANGED <<heap, heap0, strict, err, composeArg, inputArg, output,
                 promises, order, self>>
  /\ UNCHANGED hookupVars
  /\ UNCHANGED setVars

Started(r) ==
  /\ heap' = r.h
  /\ promises' = r.ps
  /\ pc' = IF r.thr THEN "rejected" ELSE "pending"
  /\ err' = IF r.thr THEN TypeError ELSE err

(* validator(input), up to the call of Promise.all: a throw in the async
   function rejects the promise it returns *)
StartAll ==
  /\ pc = "composed"
  /\ Started(observables(heap, composeAsync(composeArg).present, inputArg))
  /\ UNCHANGED <<heap0, strict, composeArg, inputArg, output, order, self>>
  /\ UNCHANGED hookupVars
  /\ UNCHANGED setVars

(* the promise of one validator is fulfilled *)
Resolve ==
  /\ pc = "pending"
  /\ \E i \in DOMAIN promises :
       /\ promises[i].state = "pending"
       /\ promises' = [promises EXCEPT ![i].state = "resolved"]
       /\ order' = Append(order, i)
  /\ UNCHANGED <<heap, heap0, strict, pc, err, composeArg, inputArg, output,
                 self>>
  /\ UNCHANGED hookupVars
  /\ UNCHANGED setVars

Merged(r) ==
  /\ heap' = r.h
  /\ output' = r.v
  /\ pc' = "resolved"

(* Promise.all(observables).then(Validators.mergeErrors) *)
MergeAll ==
  /\ pc = "pending"
  /\ allResolved(promises)
  /\ Merged(mergeErrors(heap, [j \in DOMAIN promises |-> promises[j].v]))
  /\ UNCHANGED <<heap0, strict, err, composeArg, inputArg, promises, order, self>>
  /\ UNCHANGED hookupVars
  /\ UNCHANGED setVars

NextAsync == ComposeAsync \/ StartAll \/ Resolve \/ MergeAll

SpecAsync == InitAsync /\ [][NextAsync]_vars

(* the list holds validators only, and what they say of the input, merged in
   list order *)
OnlyValidators ==
  ~composeArg.isNull /\ \A j \in DOMAIN composeArg.vs : isFunction(composeArg.vs[j])
bodies == [j \in DOMAIN composeArg.vs |-> bodyOf(composeArg.vs[j])]
inListOrder == composed(heap0, bodies, inputArg)

(* C20: the validator composeAsync returns calls every validator of the list
   on the input, is fulfilled only when all their promises are, and then
   with the merge of their results in list order, whatever the order they
   were fulfilled in; a validator that returns a plain value counts as
   fulfilled already, so that the call is never rejected. *)
C20_ComposeAsyncMergesInListOrder ==
  OnlyValidators
    => /\ pc # "rejected"
       /\ pc \in {"pending", "resolved"}
            => /\ Len(promises) = Len(composeArg.vs)
               /\ \A j \in DOMAIN promises :
                    ~returnsPromise(composeArg.vs[j])
                      => promises[j].state = "resolved"
       /\ pc = "resolved"
            => /\ allResolved(promises)
               /\ DeepEq(heap, output, inListOrder.h, inListOrder.v)

-----------------------------------------------------------------------------
(* hookup on schemas whose Function accessors write to the object they are
   handed *)

FnPool ==
  << [k |-> kName, v |-> L(Str(kFirstName))],
     [k |-> kAge, v |-> ageSelector],
     [k |-> kTitle, v |-> L(Fn(<<"rename">>, 0))],
     [k |-> kFlag, v |-> L(Fn(<<"forget">>, 0))],
     [k |-> kPrev, v |-> L(Fn(<<"extra">>, 0))],
     [k |-> kLocation, v |-> LArr(<<L(Str(kAddress))>>)],
     [k |-> kHome, v |-> LObj(<<kTown, kTitle>>,
                              <<L(Str(pAddressCity)), L(Fn(<<"rename">>, 0))>>)],
     [k |-> kBad, v |-> L(Num(5))] >>

MaxFnFields == 3

FnSchemas ==
  { LET is == sorted(I)
    IN LObj([j \in DOMAIN is |-> FnPool[is[j]].k],
            [j \in DOMAIN is |-> FnPool[is[j]].v]) :
    I \in { J \in SUBSET DOMAIN FnPool : Cardinality(J) <= MaxFnFields } }

InitFn ==
  \E sch \in FnSchemas, a \in SourceArgs :
    /\ heap = LoadArg(a).h
    /\ heap0 = heap
    /\ strict = TRUE
    /\ schema = sch
    /\ source = LoadArg(a).v
    /\ pc = "run" /\ si = 1 /\ fi = 0 /\ obj = 0
    /\ results = <<>> /\ err = NoError /\ fnLog = <<>>
    /\ Idle
    /\ NoValidation

SpecFn == InitFn /\ [][Next]_vars

(* entry j of the schema as a schema of its own, and whether result i holds
   under its key what that accessor alone produces from source i *)
entryAlone(j) == LObj(<<schema.ks[j]>>, <<schema.vs[j]>>)

HoldsOwnValue(i, j) ==
  /\ SeqHas(heap[results[i].n].ks, schema.ks[j])
  /\ DeepEq(heap, Prop(heap, results[i], schema.ks[j]).v,
            aloneValue(entryAlone(j), srcs[i], schema.ks[j]).h,
            aloneValue(entryAlone(j), srcs[i], schema.ks[j]).v)

(* C21: a Function accessor is handed the fields resolved before it by
   value: whatever it does to its second argument, each other field of the
   final result has the value its own accessor produced. *)
C21_SiblingsPassedByValue ==
  pc = "done"
    => \A i \in DOMAIN results :
         \A j \in DOMAIN schema.ks :
           schema.vs[j].t # "function" => HoldsOwnValue(i, j)

-----------------------------------------------------------------------------
(* hookup on schemas whose accessors are plain mappings, with and without a
   path, validators and a transform *)

ShapePool ==
  << [k |-> kAge, v |-> LObj(<<kPath>>, <<L(Str(kAgeCap))>>)],
     [k |-> kPrev, v |-> LObj(<<kPath, kTransform>>,
                              <<L(Str(kAgeCap)), L(Fn(<<"double">>, 0))>>)],
     [k |-> kFlag, v |-> LObj(<<kPath, kValidators>>,
                              <<L(Str(kAgeCap)), min(MinAge)>>)],
     [k |-> kHome, v |-> LObj(<<kTown>>, <<L(Str(pAddressCity))>>)],
     [k |-> kLocation, v |-> LObj(<<kPath, kTown>>,
                                  <<L(Str(kAgeCap)), L(Str(pAddressCity))>>)],
     [k |-> kName, v |-> L(Str(kFirstName))],
     [k |-> kCity, v |-> L(Fn(<<"city">>, 0))],
     [k |-> kTitle, v |-> LArr(<<L(Str(kAddress))>>)],
     [k |-> kBad, v |-> L(Num(5))] >>

MaxShapeFields == 2

ShapeSchemas ==
  { LET is == sorted(I)
    IN LObj([j \in DOMAIN is |-> ShapePool[is[j]].k],
            [j \in DOMAIN is |-> ShapePool[is[j]].v]) :
    I \in { J \in SUBSET DOMAIN ShapePool : Cardinality(J) <= MaxShapeFields } }

InitShape ==
  \E sch \in ShapeSchemas, a \in SourceArgs :
    /\ heap = LoadArg(a).h
    /\ heap0 = heap
    /\ strict = TRUE
    /\ schema = sch
    /\ source = LoadArg(a).v
    /\ pc = "run" /\ si = 1 /\ fi = 0 /\ obj = 0
    /\ results = <<>> /\ err = NoError /\ fnLog = <<>>
    /\ Idle
    /\ NoValidation

SpecShape == InitShape /\ [][Next]_vars

(* the shape of accessor i, and what the source being resolved holds at the
   path the accessor carries *)
IsMapping(i) == schema.vs[i].t = "object"
Carries(i, key) == SeqHas(schema.vs[i].ks, key)
atPath(i) ==
  ReachOf(heap0, srcs[si],
          split(schema.vs[i].vs[IndexOf(schema.vs[i].ks, kPath)].s)).v

(* field i of the result is an object of the accessor's own keys *)
IsNested(i) == IsObject(heap, field(i)) /\ heap[field(i).n].ks = schema.vs[i].ks

(* C22: a plain mapping is resolved as a nested schema only when it has no
   path key: with a path it is a selector, validators and transform being
   optional, so that {path: 'Age'} resolves to the value at 'Age'. *)
C22_PathMakesSelector ==
  \A i \in Resolved :
    IsMapping(i)
      => /\ IsNested(i) <=> ~Carries(i, kPath)
         /\ (Carries(i, kPath) /\ schema.vs[i].ks = <<kPath>>)
              => field(i) = atPath(i)

(* C22, as the code has it: a plain mapping is a selector when it has a path
   and, with it, validators or a transform; every other mapping, one that
   has a path only included, is resolved as a nested schema, so that
   {path: 'Age'} resolves to {path: the value at 'Age'}. *)
C22_SelectorNeedsValidatorsOrTransform ==
  \A i \in Resolved :
    IsMapping(i)
      => /\ IsNested(i)
              <=> ~(/\ Carries(i, kPath)
                    /\ (Carries(i, kValidators) \/ Carries(i, kTransform)))
         /\ schema.vs[i].ks = <<kPath>>
              => heap[field(i).n].vs = <<atPath(i)>>
         /\ schema.vs[i].ks = <<kPath, kTransform>>
              => field(i) = Num(2 * atPath(i).n)

C22_Witness ==
  /\ 1 \in Resolved
  /\ schema.vs[1].ks = <<kPath>>
  /\ IsObject(heap, field(1))
  /\ heap[field(1).n].ks = <<kPath>>
  /\ heap[field(1).n].vs = <<Num(30)>>

-----------------------------------------------------------------------------
(* Field (field.ts): new Field(value, validators, asyncValidators) and one
   run of _runAsyncValidator, whose continuation after the await is a step of
   its own.  The instance is the record self; the validator is called on the
   instance, of which getFieldValue takes the value. *)

NoAsyncValidator == [kind |-> "none", present |-> <<>>]

(* Validators.composeAsyncValidators(list), the list holding functions *)
composeAsyncValidators(vs) ==
  IF composeAsync(ListOf(vs)).null THEN NoAsyncValidator
  ELSE [kind |-> "composed", present |-> composeAsync(ListOf(vs)).present]

(* Array.isArray(asyncValidator) ? composeAsyncValidators(asyncValidator)
                                 : asyncValidator || null *)
coerceToAsyncValidator(raw) ==
  CASE raw.shape = "array" -> composeAsyncValidators(raw.vs)
    [] raw.shape = "fn" -> [kind |-> "fn", present |-> raw.vs]
    [] OTHER -> NoAsyncValidator

(* the constructor *)
Field(val, raw) ==
  [status |-> "VALID",
   hasOwnPendingAsyncValidator |-> FALSE,
   errors |-> Undefined,
   value |-> val,
   rawAsyncValidators |-> raw,
   composedAsyncValidatorFn |-> coerceToAsyncValidator(raw)]

RawAsyncValidators ==
  { [shape |-> "undefined", vs |-> <<>>], [shape |-> "null", vs |-> <<>>] }
  \cup { [shape |-> "fn", vs |-> <<AsyncPool[i]>>] : i \in DOMAIN AsyncPool }
  \cup UNION { { [shape |-> "array", vs |-> [j \in 1..n |-> AsyncPool[f[j]]]] :
                  f \in [1..n -> DOMAIN AsyncPool] } : n \in 0..MaxValidators }

InitField ==
  \E x \in AsyncInputs, raw \in RawAsyncValidators :
    /\ heap = <<>>
    /\ heap0 = heap
    /\ strict = TRUE
    /\ pc = "field"
    /\ Idle
    /\ schema = LObj(<<>>, <<>>) /\ source = Undefined
    /\ si = 0 /\ fi = 0 /\ obj = 0
    /\ results = <<>> /\ err = NoError /\ fnLog = <<>>
    /\ composeArg = NullList /\ inputArg = Undefined /\ output = Undefined
    /\ promises = <<>> /\ order = <<>>
    /\ self = Field(x, raw)

(* this.asyncValidator(this), coerced: the promises awaited, or the throw
   that rejects the promise of _runAsyncValidator *)
Awaited(r) ==
  /\ heap' = r.h
  /\ promises' = r.ps
  /\ pc' = IF r.thr THEN "rejected" ELSE "awaiting"
  /\ err' = IF r.thr THEN TypeError ELSE err

(* _runAsyncValidator up to its await *)
RunAsyncValidator ==
  /\ pc = "field"
  /\ IF self.composedAsyncValidatorFn.kind = "none"
     THEN /\ pc' = "ran"
          /\ UNCHANGED <<heap, promises, err, self>>
     ELSE /\ self' = [self EXCEPT !.status = "PENDING",
                                  !.hasOwnPendingAsyncValidator = TRUE]
          /\ Awaited(observables(heap, self.composedAsyncValidatorFn.present,
                                 self.value))
  /\ UNCHANGED <<heap0, strict, composeArg, inputArg, output, order>>
  /\ UNCHANGED hookupVars
  /\ UNCHANGED setVars

(* the promise of one validator is fulfilled *)
FieldResolve ==
  /\ pc = "awaiting"
  /\ \E i \in DOMAIN promises :
       /\ promises[i].state = "pending"
       /\ promises' = [promises EXCEPT ![i].state = "resolved"]
       /\ order' = Append(order, i)
  /\ UNCHANGED <<heap, heap0, strict, pc, err, composeArg, inputArg, output,
                 self>>
  /\ UNCHANGED hookupVars
  /\ UNCHANGED setVars

(* what the awaited promise is fulfilled with: the value of the validator's
   promise, or the merge of a composed validator *)
awaitedErrors(h, kind, ps) ==
  IF kind = "fn" THEN [h |-> h, v |-> ps[1].v]
  ELSE mergeErrors(h, [j \in DOMAIN ps |-> ps[j].v])

(* if (errors) { this._hasOwnPendingAsyncValidator = false;
                 this.setErrors(errors, { emitEvent }) } *)
Resumed(errors) ==
  /\ heap' = errors.h
  /\ self' = IF Truthy(errors.v)
             THEN [self EXCEPT !.hasOwnPendingAsyncValidator = FALSE,
                               !.errors = errors.v]
             ELSE self

(* _runAsyncValidator after its await *)
Resume ==
  /\ pc = "awaiting"
  /\ allResolved(promises)
  /\ pc' = "ran"
  /\ Resumed(awaitedErrors(heap, self.composedAsyncValidatorFn.kind, promises))
  /\ UNCHANGED <<heap0, strict, err, composeArg, inputArg, output, promises,
                 order>>
  /\ UNCHANGED hookupVars
  /\ UNCHANGED setVars

NextField == RunAsyncValidator \/ FieldResolve \/ Resume

SpecField == InitField /\ [][NextField]_vars

(* a promise that can be fulfilled is, and a continuation that can run does *)
SpecFieldFair == SpecField /\ WF_vars(FieldResolve) /\ WF_vars(Resume)

IsPending == self.status = "PENDING" /\ self.hasOwnPendingAsyncValidator
PromiseResolved == pc = "awaiting" /\ allResolved(promises)

(* C23: a run of _runAsyncValidator that set the status to PENDING and the
   flag _hasOwnPendingAsyncValidator is followed, once the validator's
   promise is fulfilled, with errors or with null, by a state in which the
   flag is false and the status is no longer PENDING. *)
C23_PendingEnds ==
  (IsPending /\ PromiseResolved)
    ~> (~self.hasOwnPendingAsyncValidator /\ self.status # "PENDING")

-----------------------------------------------------------------------------
(* Validators.requiredTrue(value) and then Validators.required(value), on
   one value; output holds what each returned *)

InitRequired ==
  \E x \in FieldValues :
    /\ heap = Load(<<>>, x).h
    /\ heap0 = heap
    /\ strict = TRUE
    /\ composeArg = ListOf(<<Fn(<<"requiredTrue">>, 0), Fn(<<"required">>, 0)>>)
    /\ inputArg = Load(<<>>, x).v
    /\ output = [requiredTrue |-> Undefined, required |-> Undefined]
    /\ pc = "value"
    /\ NoCall

RequiredTrueCall ==
  /\ pc = "value"
  /\ pc' = "requiredTrue"
  /\ heap' = callValidator(heap, composeArg.vs[1], inputArg).h
  /\ output' = [output EXCEPT !.requiredTrue =
                  callValidator(heap, composeArg.vs[1], inputArg).v]
  /\ UNCHANGED <<heap0, strict, err, composeArg, inputArg, promises, order,
                 self>>
  /\ UNCHANGED hookupVars
  /\ UNCHANGED setVars

RequiredCall ==
  /\ pc = "requiredTrue"
  /\ pc' = "required"
  /\ heap' = callValidator(heap, composeArg.vs[2], inputArg).h
  /\ output' = [output EXCEPT !.required =
                  callValidator(heap, composeArg.vs[2], inputArg).v]
  /\ UNCHANGED <<heap0, strict, err, composeArg, inputArg, promises, order,
                 self>>
  /\ UNCHANGED hookupVars
  /\ UNCHANGED setVars

NextRequired == RequiredTrueCall \/ RequiredCall

SpecRequired == InitRequired /\ [][NextRequired]_vars

(* C24: what requiredTrue accepts, required accepts: on boolean true, bare
   or wrapped as {value: true}, requiredTrue returns null, and wherever
   requiredTrue returned null required returns null as well. *)
C24_RequiredTrueImpliesRequired ==
  /\ (pc # "value" /\ validated = Bool(TRUE)) => output.requiredTrue = Null
  /\ (pc = "required" /\ output.requiredTrue = Null) => output.required = Null

====
